---- MODULE Spec2Model ----
(***************************************************************************)
(* pyart.map.gates_to_grid: map_gates_to_grid and its helpers, and         *)
(* pyart.retrieve.qvp: the vertical profiles built one time step a call.   *)
(*                                                                         *)
(* One call of map_gates_to_grid is a sequential program; pc is the place  *)
(* of the call in the source, the other variables are the argument record  *)
(* and the locals of the function.                                         *)
(*                                                                         *)
(* Geometry is one-dimensional and integral: longitude is a coordinate in  *)
(* metres, latitude is always 0, the grid has one cell in z and in y and   *)
(* NX cells in x.  A radar maps one gate; the radars of Spec have one to    *)
(* three rays, of which lines 126-128 read the last gate.  Accumulated     *)
(* sums are exact rationals <<numerator, denominator>>; the rounding of    *)
(* float32 is not modelled.                                                *)
(*                                                                         *)
(* Line 303 of the source lacks the comma between the parameters offsets   *)
(* and max_az_spacing; the model reads the parameter list with the comma.  *)
(*                                                                         *)
(* A function of qvp.py is one step: the caller holds a profile object,    *)
(* passes it or None to the function together with a radar volume, and     *)
(* keeps what the function returns.  The functions change the object they  *)
(* are given in place, so the object shows what a call did before it       *)
(* raised.                                                                 *)
(***************************************************************************)
EXTENDS Integers, Sequences, FiniteSets, TLC

VARIABLES
    args,                   \* the arguments of the call (never assigned)
    pc,                     \* position of the call in map_gates_to_grid
    exc,                    \* the exception that ended the call, or None
    skip_transform,         \* line 106-108
    grid_origin_alt,        \* line 110-114
    gatefilters,            \* line 116
    cy_weighting_function,  \* line 117
    warnings,               \* the warnings issued through warnings.warn
    projparams,             \* line 118
    fields,                 \* line 119
    grid_params,            \* line 120: <<grid_starts, grid_steps>>
    offsets,                \* line 121
    roi_func,               \* line 132
    grid_sum,               \* line 138
    grid_wsum,              \* line 139
    nradar,                 \* number of radars the loop of line 144 has mapped
    grids,                  \* line 184: the returned dictionary
    ncall,                  \* number of calls of map_gates_to_grid so far
    qvp,                    \* qvp.py: the profile object the caller holds
    call,                   \* qvp.py: the function last called, its arguments
    returned,               \* qvp.py: what that call returned or raised
    qwarnings,              \* qvp.py: the warnings that call issued
    series                  \* qvp.py: the calls made on the object of qvp

\* the variables of map_gates_to_grid and those of qvp.py
map_vars == <<args, pc, exc, skip_transform, grid_origin_alt, gatefilters,
              cy_weighting_function, warnings, projparams, fields,
              grid_params, offsets, roi_func, grid_sum, grid_wsum, nradar,
              grids, ncall>>
qvp_vars == <<qvp, call, returned, qwarnings, series>>

vars == <<args, pc, exc, skip_transform, grid_origin_alt, gatefilters,
          cy_weighting_function, warnings, projparams, fields, grid_params,
          offsets, roi_func, grid_sum, grid_wsum, nradar, grids, ncall,
          qvp, call, returned, qwarnings, series>>

\* ------------------------------------------------------------------ bounds

MaxRadars == 2      \* radars (samples) in one call
NX == 3             \* grid cells along x
MaxAxis == 3        \* cells along an axis of the grids given to line 120
MaxCalls == 2       \* calls of map_gates_to_grid made one after another
MaxSteps == 2       \* calls of qvp.py made on one profile object
MaxRays == 3        \* rays of a field given to compute_directional_stats

\* --------------------------------------------------------------- utilities

None == "None"      \* a local that is not bound yet, an absent exception

Abs(a) == IF a >= 0 THEN a ELSE 0 - a

RECURSIVE GCD(_, _)
GCD(a, b) == IF b = 0 THEN a ELSE GCD(b, a % b)

\* exact rationals <<n, d>>, d > 0, in lowest terms
Rat(n, d) ==
    LET g == GCD(Abs(n), Abs(d))
        s == IF d < 0 THEN 0 - 1 ELSE 1
    IN  <<(s * n) \div g, (s * d) \div g>>
Zero == <<0, 1>>
One == <<1, 1>>
RAdd(p, q) == Rat(p[1] * q[2] + q[1] * p[2], p[2] * q[2])
RMul(p, q) == Rat(p[1] * q[1], p[2] * q[2])
RDiv(p, q) == Rat(p[1] * q[2], p[2] * q[1])

\* a Python dict as a function: d.pop(k) and d[k] = v
DictPop(d, k) == [x \in DOMAIN d \ {k} |-> d[x]]
DictSet(d, k, v) == [x \in DOMAIN d \cup {k} |-> IF x = k THEN v ELSE d[x]]

\* the elements of a set of strings in a fixed order
RECURSIVE SetToSeq(_)
SetToSeq(S) ==
    IF S = {} THEN <<>>
    ELSE LET x == CHOOSE y \in S : TRUE IN <<x>> \o SetToSeq(S \ {x})

Range(s) == {s[i] : i \in DOMAIN s}

\* ------------------------------------------------------------- exceptions

ErrWeighting == "ValueError: unknown weighting_function"
ErrGatefilters == "ValueError: Length of gatefilters must match length of radars"
ErrRoiFunc == "ValueError: unknown roi_func"
ErrUnbound == "UnboundLocalError: max_az_spacing"
ErrAppend == "AttributeError: numpy.ndarray has no attribute append"
ErrKey == "KeyError: field"

\* lines 202-204
WarnBarnes == "DeprecationWarning: Barnes weighting function is deprecated"

Ok(v) == [exc |-> None, val |-> <<v>>]
Raise(e) == [exc |-> e, val |-> <<>>]

\* ------------------------------------------------ external collaborators

\* core.transforms.geographic_to_cartesian for the azimuthal-equidistant
\* projection centred on (lon_0, lat_0), in this one-dimensional geometry;
\* a projection without lon_0/lat_0 is centred on (0, 0)
geographic_to_cartesian(lon, lat, pp) ==
    LET lon_0 == IF "lon_0" \in DOMAIN pp THEN pp["lon_0"] ELSE 0
        lat_0 == IF "lat_0" \in DOMAIN pp THEN pp["lat_0"] ELSE 0
    IN  <<lon - lon_0, lat - lat_0>>

\* str.upper() on the names the model passes as weighting_function
Upper(s) ==
    CASE s \in {"Barnes", "barnes", "BARNES"} -> "BARNES"
      [] s \in {"Barnes2", "barnes2", "BARNES2"} -> "BARNES2"
      [] s \in {"Nearest", "nearest", "NEAREST"} -> "NEAREST"
      [] s \in {"Cressman", "cressman", "CRESSMAN"} -> "CRESSMAN"
      [] s = "Gauss" -> "GAUSS"
      [] s = "" -> ""

\* ------------------------------------------------------------ the helpers

\* lines 106-108
SkipTransform(a) ==
    Len(a.radars) = 1 /\ a.grid_origin_alt = <<>> /\ a.grid_origin = <<>>

\* variant of GridOriginAlt: the altitude argument is ignored
origin_alt_of_first(a) == a.radars[1].altitude

\* lines 110-114 (float() and np.mean agree on the single altitude of a site)
GridOriginAlt(a) ==
    IF a.grid_origin_alt = <<>> THEN a.radars[1].altitude
    ELSE a.grid_origin_alt[1]

\* variant of _parse_gatefilters: the lengths are not compared
gatefilters_unchecked(gf, radars) ==
    LET g1 == IF gf.kind = "GateFilter" THEN [kind |-> "seq", seq |-> <<gf>>]
              ELSE gf
        g2 == IF g1.kind = "False"
              THEN [kind |-> "seq",
                    seq |-> [i \in 1..Len(radars) |-> [kind |-> "False"]]]
              ELSE g1
        g3 == IF g2.kind = "None"
              THEN [kind |-> "seq",
                    seq |-> [i \in 1..Len(radars) |-> [kind |-> "None"]]]
              ELSE g2
    IN  Ok(g3.seq)

\* lines 237-247; a parsed entry is False, None or a GateFilter object
_parse_gatefilters(gf, radars) ==
    LET g1 == IF gf.kind = "GateFilter" THEN [kind |-> "seq", seq |-> <<gf>>]
              ELSE gf
        g2 == IF g1.kind = "False"
              THEN [kind |-> "seq",
                    seq |-> [i \in 1..Len(radars) |-> [kind |-> "False"]]]
              ELSE g1
        g3 == IF g2.kind = "None"
              THEN [kind |-> "seq",
                    seq |-> [i \in 1..Len(radars) |-> [kind |-> "None"]]]
              ELSE g2
    IN  IF Len(g3.seq) # Len(radars) THEN Raise(ErrGatefilters)
        ELSE Ok(g3.seq)

\* variant of _detemine_cy_weighting_func: an unknown name falls back to
\* the Barnes kernel
cy_default(weighting_function) ==
    LET u == Upper(weighting_function)
    IN  CASE u = "BARNES2" -> Ok(<<3, FALSE>>)
          [] u = "NEAREST" -> Ok(<<2, FALSE>>)
          [] u = "CRESSMAN" -> Ok(<<1, FALSE>>)
          [] OTHER -> Ok(<<0, TRUE>>)

\* variant of _detemine_cy_weighting_func: Barnes is taken without a warning
cy_silent(weighting_function) ==
    LET u == Upper(weighting_function)
    IN  CASE u = "BARNES2" -> Ok(<<3, FALSE>>)
          [] u = "NEAREST" -> Ok(<<2, FALSE>>)
          [] u = "CRESSMAN" -> Ok(<<1, FALSE>>)
          [] u = "BARNES" -> Ok(<<0, FALSE>>)
          [] OTHER -> Raise(ErrWeighting)

\* lines 193-208; the DeprecationWarning of Barnes is the second component
_detemine_cy_weighting_func(weighting_function) ==
    LET u == Upper(weighting_function)
    IN  CASE u = "BARNES2" -> Ok(<<3, FALSE>>)
          [] u = "NEAREST" -> Ok(<<2, FALSE>>)
          [] u = "CRESSMAN" -> Ok(<<1, FALSE>>)
          [] u = "BARNES" -> Ok(<<0, TRUE>>)
          [] OTHER -> Raise(ErrWeighting)

\* variant of _find_projparams: the origin is that of the first radar, the
\* grid_origin argument is ignored
projparams_of_first(grid_origin, radars, grid_projection) ==
    LET grid_origin_lat == radars[1].latitude
        grid_origin_lon == radars[1].longitude
        projection == IF grid_projection = <<>>
                      THEN ("proj" :> "pyart_aeqd") @@
                           ("_include_lon_0_lat_0" :> TRUE)
                      ELSE grid_projection[1]
        include == IF "_include_lon_0_lat_0" \in DOMAIN projection
                   THEN projection["_include_lon_0_lat_0"] ELSE FALSE
        popped == DictPop(projection, "_include_lon_0_lat_0")
    IN  IF include
        THEN DictSet(DictSet(popped, "lon_0", grid_origin_lon),
                     "lat_0", grid_origin_lat)
        ELSE popped

\* lines 211-234
_find_projparams(grid_origin, radars, grid_projection) ==
    LET origin == IF grid_origin = <<>>
                  THEN <<radars[1].latitude, radars[1].longitude>>
                  ELSE grid_origin[1]
        grid_origin_lat == origin[1]
        grid_origin_lon == origin[2]
        projection == IF grid_projection = <<>>
                      THEN ("proj" :> "pyart_aeqd") @@
                           ("_include_lon_0_lat_0" :> TRUE)
                      ELSE grid_projection[1]
        include == IF "_include_lon_0_lat_0" \in DOMAIN projection
                   THEN projection["_include_lon_0_lat_0"] ELSE FALSE
        popped == DictPop(projection, "_include_lon_0_lat_0")
    IN  IF include
        THEN DictSet(DictSet(popped, "lon_0", grid_origin_lon),
                     "lat_0", grid_origin_lat)
        ELSE popped

\* variant of _determine_fields: the loop over radars[1:] is left out
fields_of_first(flds, radars) ==
    IF flds = <<>> THEN SetToSeq(DOMAIN radars[1].fields)
    ELSE flds[1]

\* lines 250-257; list(set) comes in some fixed order
_determine_fields(flds, radars) ==
    IF flds = <<>>
    THEN SetToSeq({f \in DOMAIN radars[1].fields :
                     \A i \in 2..Len(radars) : f \in DOMAIN radars[i].fields})
    ELSE flds[1]

\* variant of GridStep: the range is divided by the number of cells
step_by_cells(n, lim) == IF n = 1 THEN 0 ELSE (lim[2] - lim[1]) \div n

\* lines 276-299; the limits the model passes divide evenly
GridStep(n, lim) == IF n = 1 THEN 0 ELSE (lim[2] - lim[1]) \div (n - 1)

_find_grid_params(grid_shape, grid_limits) ==
    <<  <<grid_limits[1][1], grid_limits[2][1], grid_limits[3][1]>>,
        <<GridStep(grid_shape[1], grid_limits[1]),
          GridStep(grid_shape[2], grid_limits[2]),
          GridStep(grid_shape[3], grid_limits[3])>>  >>

\* lines 126-128: the spacings of adjacent rays at the last gate; with
\* gate_y = 0 the square root of line 128 is the absolute difference in x
AzSpacing(radar) ==
    [k \in 1..(radar.nrays - 1) |->
        Abs(radar.last_gate_x[k + 1] - radar.last_gate_x[k])]

\* np.max of a sequence of numbers that is not empty
MaxOf(xs) == CHOOSE m \in Range(xs) : \A x \in Range(xs) : x <= m

\* lines 125-130, were the per-radar maxima collected: the largest spacing
\* of any radar
MaxAzSpacing(radars) ==
    MaxOf([i \in 1..Len(radars) |-> MaxOf(AzSpacing(radars[i]))])

\* variant of _find_offsets: every radar gets the offset of the first
offsets_of_first(radars, pp, origin_alt) ==
    [i \in 1..Len(radars) |->
        LET disp == geographic_to_cartesian(
                        radars[1].longitude, radars[1].latitude, pp)
        IN  <<radars[1].altitude - origin_alt, disp[2], disp[1]>>]

\* lines 260-273
_find_offsets(radars, pp, origin_alt) ==
    [i \in 1..Len(radars) |->
        LET disp == geographic_to_cartesian(
                        radars[i].longitude, radars[i].latitude, pp)
        IN  <<radars[i].altitude - origin_alt, disp[2], disp[1]>>]

\* variant of _parse_roi_func: 'constant' is built from min_radius
roi_min_radius(rf, constant_roi, z_factor, xy_factor, min_radius, h_factor, nb, bsp, offs, max_az_spacing) ==
    IF rf.kind = "RoIFunction" THEN Ok(rf)
    ELSE CASE rf.name = "constant" ->
                Ok([kind |-> "RoIFunction", cls |-> "ConstantRoI",
                    constant_roi |-> min_radius])
           [] rf.name = "dist" ->
                Ok([kind |-> "RoIFunction", cls |-> "DistRoI",
                    z_factor |-> z_factor, xy_factor |-> xy_factor,
                    min_radius |-> min_radius, offsets |-> offs])
           [] rf.name = "dist_beam" ->
                Ok([kind |-> "RoIFunction", cls |-> "DistBeamRoI",
                    h_factor |-> h_factor, nb |-> nb, bsp |-> bsp,
                    min_radius |-> min_radius, offsets |-> offs])
           [] rf.name = "max_space" ->
                Ok([kind |-> "RoIFunction", cls |-> "MaxSpaceRoI",
                    max_az_spacing |-> max_az_spacing])
           [] OTHER -> Raise(ErrRoiFunc)

\* lines 302-316; an RoIFunction object is a record with a cls field
_parse_roi_func(rf, constant_roi, z_factor, xy_factor, min_radius, h_factor, nb, bsp, offs, max_az_spacing) ==
    IF rf.kind = "RoIFunction" THEN Ok(rf)
    ELSE CASE rf.name = "constant" ->
                Ok([kind |-> "RoIFunction", cls |-> "ConstantRoI",
                    constant_roi |-> constant_roi])
           [] rf.name = "dist" ->
                Ok([kind |-> "RoIFunction", cls |-> "DistRoI",
                    z_factor |-> z_factor, xy_factor |-> xy_factor,
                    min_radius |-> min_radius, offsets |-> offs])
           [] rf.name = "dist_beam" ->
                Ok([kind |-> "RoIFunction", cls |-> "DistBeamRoI",
                    h_factor |-> h_factor, nb |-> nb, bsp |-> bsp,
                    min_radius |-> min_radius, offsets |-> offs])
           [] rf.name = "max_space" ->
                Ok([kind |-> "RoIFunction", cls |-> "MaxSpaceRoI",
                    max_az_spacing |-> max_az_spacing])
           [] OTHER -> Raise(ErrRoiFunc)

\* --------------------------------------------- the mapper (Cython, 4.1-4.3)

\* the cells of a grid of the given shape, indices from 0
Cells(shape) ==
    (0..(shape[1] - 1)) \X (0..(shape[2] - 1)) \X (0..(shape[3] - 1))

\* centre of cell c: origin + index * step (section 3)
Centre(c, gp) ==
    <<gp[1][1] + c[1] * gp[2][1],
      gp[1][2] + c[2] * gp[2][2],
      gp[1][3] + c[3] * gp[2][3]>>

\* squared Euclidean distance between two <<z, y, x>> points
Dist2(p, q) ==
    (p[1] - q[1]) * (p[1] - q[1]) + (p[2] - q[2]) * (p[2] - q[2])
    + (p[3] - q[3]) * (p[3] - q[3])

\* the smallest of a set of integers that is not empty
MinOf(S) == CHOOSE m \in S : \A x \in S : m <= x

\* DistRoI relative to one offset: linear in the vertical and the horizontal
\* distance from the sensor, and min_radius at the sensor (section 3); with
\* y = 0 the horizontal distance is the absolute difference in x
DistRadius(roi, p, off) ==
    roi.z_factor * (p[1] - off[1]) + roi.xy_factor * Abs(p[3] - off[3])
    + roi.min_radius

\* RoIFunction.get_roi at a grid location <<z, y, x>> (section 4.1, and
\* lines 57-60 of the docstring); the model maps with ConstantRoI and with
\* DistRoI, which holds the offsets of all the radars (line 309) and takes
\* the nearest of them (section 4.4), the one of the smallest radius
get_roi(roi, p) ==
    CASE roi.cls = "ConstantRoI" -> roi.constant_roi
      [] roi.cls = "DistRoI" ->
            MinOf({DistRadius(roi, p, roi.offsets[k]) :
                        k \in DOMAIN roi.offsets})

\* variant of Weight: every kernel gives the weight 1 within the radius
weight_flat(cy, d2, r2) == One

\* section 4.2: the weight of a sample at squared distance d2 <= r2;
\* tags 0 and 3 (the exponential kernels) are not evaluated by the model
Weight(cy, d2, r2) ==
    CASE cy = 2 -> One
      [] cy = 1 -> Rat(r2 - d2, r2 + d2)

\* variant of SearchRadius: the radius at the sensor, the least a 'dist'
\* radius takes, stands for the radius of every cell
search_radius_proxy(roi, shape, gp) ==
    CASE roi.cls = "ConstantRoI" -> roi.constant_roi
      [] roi.cls = "DistRoI" -> roi.min_radius

\* section 4.3, step 2: the search radius, the largest radius the RoI
\* function gives on the grid
SearchRadius(roi, shape, gp) ==
    LET R == {get_roi(roi, Centre(c, gp)) : c \in Cells(shape)}
    IN  CHOOSE m \in R : \A r \in R : r <= m

\* section 4.3, step 2, on one axis: the indices of the cells between
\* a - r and a + r, through (location - start) / step, clipped to [0, n);
\* an axis of one cell has step 0 and index 0
IndexRange(a, r, start, step, n) ==
    IF step = 0 THEN {0}
    ELSE LET lo == 0 - ((r + start - a) \div step)
             hi == (a + r - start) \div step
         IN  (IF lo < 0 THEN 0 ELSE lo)..(IF hi > n - 1 THEN n - 1 ELSE hi)

\* section 4.3, step 2: the candidate cells of a sample at p
Candidates(p, roi, shape, gp) ==
    LET S == SearchRadius(roi, shape, gp)
    IN  IndexRange(p[1], S, gp[1][1], gp[2][1], shape[1])
        \X IndexRange(p[2], S, gp[1][2], gp[2][2], shape[2])
        \X IndexRange(p[3], S, gp[1][3], gp[2][3], shape[3])

\* section 4.3, steps 2-3: the cells a sample at p reaches, the candidates
\* within their own radius (d > R skips the cell)
Reached(p, roi, shape, gp) ==
    {c \in Candidates(p, roi, shape, gp) :
        LET r == get_roi(roi, Centre(c, gp))
        IN  r >= 0 /\ Dist2(Centre(c, gp), p) <= r * r}

\* GateToGridMapper.map_gates_to_grid for the single gate of one radar:
\* section 4.3, steps 1-4, on the pair <<grid_sum, grid_wsum>>
MapGates(acc, p, field_data, field_mask, excluded, toa, roi, cy, shape, gp) ==
    IF excluded \/ p[1] > toa THEN acc
    ELSE LET hit == Reached(p, roi, shape, gp)
             w(c) == LET r == get_roi(roi, Centre(c, gp))
                     IN  Weight(cy, Dist2(Centre(c, gp), p), r * r)
             add(c, i) == c \in hit /\ ~field_mask[i]
         IN  << [c \in Cells(shape) |-> [i \in DOMAIN field_data |->
                    IF add(c, i)
                    THEN RAdd(acc[1][c][i], RMul(w(c), <<field_data[i], 1>>))
                    ELSE acc[1][c][i]]],
                [c \in Cells(shape) |-> [i \in DOMAIN field_data |->
                    IF add(c, i) THEN RAdd(acc[2][c][i], w(c))
                    ELSE acc[2][c][i]]] >>

\* a cell of an array that has no mask
Plain(v) == [data |-> v]

\* GateToGridMapper.find_roi_for_grid: the radius at every cell (section 4.4)
find_roi_for_grid(roi, shape, gp) ==
    [c \in Cells(shape) |-> Plain(get_roi(roi, Centre(c, gp)))]

\* ------------------------------------------- the body of map_gates_to_grid

\* variant of ZeroGrid: the arrays are made with np.empty and hold what the
\* memory held
empty_grid(shape, nfields) ==
    [c \in Cells(shape) |-> [i \in 1..nfields |-> One]]

\* lines 137-139
ZeroGrid(shape, nfields) ==
    [c \in Cells(shape) |-> [i \in 1..nfields |-> Zero]]

\* lines 149, 153
FieldData(radar, flds) == [i \in 1..Len(flds) |-> radar.fields[flds[i]].data]

\* variant of FieldMask: every field gets the mask of the first field
mask_of_first(radar, flds) ==
    [i \in 1..Len(flds) |-> radar.fields[flds[1]].mask]

\* lines 150, 154
FieldMask(radar, flds) == [i \in 1..Len(flds) |-> radar.fields[flds[i]].mask]

\* variant of ExcludedGates: the gate filter is ignored
exclude_none(gatefilter, radar) == FALSE

\* lines 156-161
ExcludedGates(gatefilter, radar) ==
    CASE gatefilter.kind = "False" -> FALSE
      [] gatefilter.kind = "None" -> radar.moment_excluded
      [] OTHER -> gatefilter.gate_excluded

\* variant of GateLocation: the height is taken with the wrong sign
gate_z_flipped(radar, skip, pp, origin_alt) ==
    LET xy == IF skip THEN <<radar.gate_x, radar.gate_y>>
              ELSE geographic_to_cartesian(
                       radar.gate_longitude, radar.gate_latitude, pp)
    IN  <<origin_alt - radar.gate_altitude, xy[2], xy[1]>>

\* lines 163-172: <<gate_z, gate_y, gate_x>>
GateLocation(radar, skip, pp, origin_alt) ==
    LET xy == IF skip THEN <<radar.gate_x, radar.gate_y>>
              ELSE geographic_to_cartesian(
                       radar.gate_longitude, radar.gate_latitude, pp)
    IN  <<radar.gate_altitude - origin_alt, xy[2], xy[1]>>

\* lines 144-179: one pass of the loop, on <<grid_sum, grid_wsum>>
MapOneRadar(acc, radar, gatefilter, flds, skip, pp, origin_alt, toa, roi, cy, shape, gp) ==
    MapGates(acc, GateLocation(radar, skip, pp, origin_alt),
             FieldData(radar, flds), FieldMask(radar, flds),
             ExcludedGates(gatefilter, radar), toa, roi, cy, shape, gp)

\* a masked cell; it carries no data
Masked == [mask |-> TRUE, data |-> Zero]

\* variant of GridValue: the mask is taken from grid_sum
mask_zero_sum(s, w) ==
    IF s = Zero THEN Masked ELSE [mask |-> FALSE, data |-> RDiv(s, w)]

\* variant of GridValue: the sum is not divided by the weight
undivided(s, w) ==
    IF w = Zero THEN Masked ELSE [mask |-> FALSE, data |-> s]

\* lines 182-185 for one cell of one field
GridValue(s, w) ==
    IF w = Zero THEN Masked ELSE [mask |-> FALSE, data |-> RDiv(s, w)]

\* lines 182-185
Grids(gsum, gwsum, flds, shape) ==
    [f \in Range(flds) |->
        LET i == CHOOSE j \in DOMAIN flds : flds[j] = f
        IN  [c \in Cells(shape) |-> GridValue(gsum[c][i], gwsum[c][i])]]

\* lines 184-190: the dictionary of the field grids g, with the diagnostic
\* stored under 'ROI' when map_roi holds
Returned(g, map_roi, roi, shape, gp) ==
    IF map_roi THEN DictSet(g, "ROI", find_roi_for_grid(roi, shape, gp))
    ELSE g

\* ------------------------------------------------------------- the inputs

FieldNames == {"A", "B"}

\* the grid: one cell in z and y, NX cells two metres apart in x
GridShape == <<1, 1, NX>>
GridLimits == << <<0, 0>>, <<0, 0>>, <<0, 2 * (NX - 1)>> >>

\* a radar site and the value its gate holds; both sites lie on a cell
\* centre of an origin at longitude 0
Sites ==
    {[longitude |-> 0, altitude |-> 0, value |-> 0],
     [longitude |-> 2, altitude |-> 1, value |-> 2]}

\* a radar of one ray and one gate, the gate at the radar itself; field A
\* holds the value of the site, field B the value plus one
MkRadar(site, maskA, maskB) ==
    [longitude |-> site.longitude, latitude |-> 0, altitude |-> site.altitude,
     nrays |-> 1, ngates |-> 1,
     gate_longitude |-> site.longitude, gate_latitude |-> 0,
     gate_altitude |-> site.altitude,
     gate_x |-> 0, gate_y |-> 0,
     moment_excluded |-> FALSE,
     fields |-> [f \in FieldNames |->
                    [data |-> IF f = "A" THEN site.value ELSE site.value + 1,
                     mask |-> IF f = "A" THEN maskA ELSE maskB]]]

GateFilter(excluded) == [kind |-> "GateFilter", gate_excluded |-> excluded]

RoIName(n) == [kind |-> "str", name |-> n]

\* the sequences of 1..MaxRadars elements of S
SeqsOf(S) == UNION {[1..n -> S] : n \in 1..MaxRadars}

\* the keyword arguments the model leaves at one value
FixedArgs ==
    [grid_shape |-> GridShape, grid_limits |-> GridLimits,
     grid_projection |-> <<>>, map_roi |-> FALSE, toa |-> 0,
     z_factor |-> 0, xy_factor |-> 0, min_radius |-> 4,
     h_factor |-> 1, nb |-> 1, bsp |-> 1]

\* the origin arguments: both left to default, or both given
Origins ==
    {[grid_origin |-> <<>>, grid_origin_alt |-> <<>>],
     [grid_origin |-> << <<0, 0>> >>, grid_origin_alt |-> <<0>>],
     [grid_origin |-> << <<0, 0>> >>, grid_origin_alt |-> <<1>>]}

\* record r with the fields of record q added
With(r, q) == r @@ q

\* no function of qvp.py has been called
NoProfile ==
    /\ qvp = <<>>
    /\ call = [func |-> "none"]
    /\ returned = [exc |-> None, val |-> <<>>]
    /\ qwarnings = <<>>
    /\ series = <<>>

\* ------------------------------------ Spec: the call from its first line

\* a radar at a site that holds the fields named in F only and has one ray
\* for each element of xs, the x of the last gate of the ray
Scan(site, xs, F) ==
    LET r == MkRadar(site, FALSE, FALSE)
    IN  [longitude |-> r.longitude, latitude |-> r.latitude,
         altitude |-> r.altitude, nrays |-> Len(xs), ngates |-> r.ngates,
         gate_longitude |-> r.gate_longitude,
         gate_latitude |-> r.gate_latitude,
         gate_altitude |-> r.gate_altitude,
         gate_x |-> r.gate_x, gate_y |-> r.gate_y,
         last_gate_x |-> xs, last_gate_y |-> [k \in DOMAIN xs |-> 0],
         moment_excluded |-> r.moment_excluded,
         fields |-> [f \in F |->
                        [data |-> IF f = "A" THEN site.value
                                  ELSE site.value + 1,
                         mask |-> FALSE]]]

\* the sites by their longitude
SiteAt(lon) == CHOOSE site \in Sites : site.longitude = lon

\* the radars of a call: of one, two and three rays, with both fields or
\* with one of them
CallRadars ==
    {Scan(SiteAt(0), <<0>>, {"A", "B"}),
     Scan(SiteAt(2), <<0, 3>>, {"A", "B"}),
     Scan(SiteAt(0), <<0, 1, 6>>, {"A"}),
     Scan(SiteAt(2), <<0, 2>>, {"B"})}

CallGatefilters ==
    {[kind |-> "False"], [kind |-> "None"], GateFilter(FALSE)}
    \cup {[kind |-> "seq", seq |-> s] : s \in SeqsOf({GateFilter(FALSE)})}

WeightingNames ==
    {"Barnes", "barnes", "barnes2", "NEAREST", "Cressman", "Gauss", ""}

RoIFuncs ==
    {RoIName(n) : n \in {"constant", "dist", "dist_beam", "max_space", "cubic"}}
    \cup {[kind |-> "RoIFunction", cls |-> "ConstantRoI", constant_roi |-> 1]}

CallArgs ==
    {With(With([radars |-> r, gatefilters |-> g, weighting_function |-> w,
                roi_func |-> rf, fields |-> f, constant_roi |-> 1], o),
          FixedArgs) :
        r \in SeqsOf(CallRadars), g \in CallGatefilters,
        w \in WeightingNames, rf \in RoIFuncs,
        f \in {<<>>, << <<"A", "B">> >>}, o \in Origins}

Init ==
    /\ args \in CallArgs
    /\ pc = "start"
    /\ exc = None
    /\ skip_transform = None
    /\ grid_origin_alt = None
    /\ gatefilters = None
    /\ cy_weighting_function = None
    /\ warnings = <<>>
    /\ projparams = None
    /\ fields = None
    /\ grid_params = None
    /\ offsets = None
    /\ roi_func = None
    /\ grid_sum = None
    /\ grid_wsum = None
    /\ nradar = 0
    /\ grids = None
    /\ ncall = 1
    /\ NoProfile

\* lines 102-114
Start ==
    /\ pc = "start"
    /\ skip_transform' = SkipTransform(args)
    /\ grid_origin_alt' = GridOriginAlt(args)
    /\ pc' = "parse_gatefilters"
    /\ UNCHANGED <<qvp_vars, args, ncall, warnings, exc, gatefilters, cy_weighting_function, projparams,
                   fields, grid_params, offsets, roi_func, grid_sum,
                   grid_wsum, nradar, grids>>

\* line 116
ParseGatefilters ==
    /\ pc = "parse_gatefilters"
    /\ LET r == _parse_gatefilters(args.gatefilters, args.radars)
       IN  IF r.exc # None
           THEN /\ exc' = r.exc
                /\ pc' = "raised"
                /\ UNCHANGED gatefilters
           ELSE /\ gatefilters' = r.val[1]
                /\ pc' = "weighting"
                /\ UNCHANGED exc
    /\ UNCHANGED <<qvp_vars, args, ncall, warnings, skip_transform, grid_origin_alt,
                   cy_weighting_function, projparams, fields, grid_params,
                   offsets, roi_func, grid_sum, grid_wsum, nradar, grids>>

\* line 117
DetermineWeighting ==
    /\ pc = "weighting"
    /\ LET r == _detemine_cy_weighting_func(args.weighting_function)
       IN  IF r.exc # None
           THEN /\ exc' = r.exc
                /\ pc' = "raised"
                /\ UNCHANGED <<cy_weighting_function, warnings>>
           ELSE /\ cy_weighting_function' = r.val[1][1]
                /\ warnings' = IF r.val[1][2]
                               THEN Append(warnings, WarnBarnes)
                               ELSE warnings
                /\ pc' = "projparams"
                /\ UNCHANGED exc
    /\ UNCHANGED <<qvp_vars, args, ncall, skip_transform, grid_origin_alt,
                   gatefilters, projparams, fields, grid_params, offsets,
                   roi_func, grid_sum, grid_wsum, nradar, grids>>

\* line 118
FindProjparams ==
    /\ pc = "projparams"
    /\ projparams' = _find_projparams(args.grid_origin, args.radars,
                                      args.grid_projection)
    /\ pc' = "fields"
    /\ UNCHANGED <<qvp_vars, args, ncall, warnings, exc, skip_transform, grid_origin_alt, gatefilters,
                   cy_weighting_function, fields, grid_params, offsets,
                   roi_func, grid_sum, grid_wsum, nradar, grids>>

\* line 119
DetermineFields ==
    /\ pc = "fields"
    /\ fields' = _determine_fields(args.fields, args.radars)
    /\ pc' = "grid_params"
    /\ UNCHANGED <<qvp_vars, args, ncall, warnings, exc, skip_transform, grid_origin_alt, gatefilters,
                   cy_weighting_function, projparams, grid_params, offsets,
                   roi_func, grid_sum, grid_wsum, nradar, grids>>

\* line 120
FindGridParams ==
    /\ pc = "grid_params"
    /\ grid_params' = _find_grid_params(args.grid_shape, args.grid_limits)
    /\ pc' = "offsets"
    /\ UNCHANGED <<qvp_vars, args, ncall, warnings, exc, skip_transform, grid_origin_alt, gatefilters,
                   cy_weighting_function, projparams, fields, offsets,
                   roi_func, grid_sum, grid_wsum, nradar, grids>>

\* line 121
FindOffsets ==
    /\ pc = "offsets"
    /\ offsets' = _find_offsets(args.radars, projparams, grid_origin_alt)
    /\ pc' = "max_space"
    /\ UNCHANGED <<qvp_vars, args, ncall, warnings, exc, skip_transform, grid_origin_alt, gatefilters,
                   cy_weighting_function, projparams, fields, grid_params,
                   roi_func, grid_sum, grid_wsum, nradar, grids>>

\* lines 123-130: max_space_radars is an ndarray, which has no append, so
\* the first pass of the loop of line 125 raises at line 129; for any other
\* roi_func the block is skipped and max_az_spacing stays unbound
MaxSpace ==
    /\ pc = "max_space"
    /\ IF args.roi_func = RoIName("max_space")
       THEN /\ exc' = ErrAppend
            /\ pc' = "raised"
       ELSE /\ pc' = "parse_roi_func"
            /\ UNCHANGED exc
    /\ UNCHANGED <<qvp_vars, args, ncall, warnings, skip_transform, grid_origin_alt, gatefilters,
                   cy_weighting_function, projparams, fields, grid_params,
                   offsets, roi_func, grid_sum, grid_wsum, nradar, grids>>

\* lines 132-134: the arguments of the call of _parse_roi_func are evaluated
\* first, and max_az_spacing, a local bound only by line 130, is unbound
ParseRoiFunc ==
    /\ pc = "parse_roi_func"
    /\ exc' = ErrUnbound
    /\ pc' = "raised"
    /\ UNCHANGED <<qvp_vars, args, ncall, warnings, skip_transform, grid_origin_alt, gatefilters,
                   cy_weighting_function, projparams, fields, grid_params,
                   offsets, roi_func, grid_sum, grid_wsum, nradar, grids>>

Next ==
    \/ Start
    \/ ParseGatefilters
    \/ DetermineWeighting
    \/ FindProjparams
    \/ DetermineFields
    \/ FindGridParams
    \/ FindOffsets
    \/ MaxSpace
    \/ ParseRoiFunc

Spec == Init /\ [][Next]_vars

\* --------------------------- SpecGrid: the gridding proper, lines 136-190
\*
\* Every call of Spec ends in an exception before line 136.  SpecGrid is the
\* rest of the function: it starts at line 136 with the locals holding what
\* lines 102-134 compute for the arguments, roi_func being what
\* _parse_roi_func returns for them.

GridRadars ==
    {MkRadar(site, maskA, maskB) :
        site \in Sites, maskA \in BOOLEAN, maskB \in BOOLEAN}

\* gatefilters for n radars: False, or one GateFilter for each radar
GridGatefilters(n) ==
    {[kind |-> "False"]}
    \cup {[kind |-> "seq", seq |-> s] :
            s \in [1..n -> {GateFilter(b) : b \in BOOLEAN}]}

GridArgs ==
    {With(With([radars |-> r, gatefilters |-> g, weighting_function |-> w,
                roi_func |-> RoIName("constant"),
                fields |-> << <<"A", "B">> >>, constant_roi |-> cr], o),
          FixedArgs) :
        r \in SeqsOf(GridRadars),
        g \in UNION {GridGatefilters(n) : n \in 1..MaxRadars},
        w \in {"Nearest", "Cressman"}, cr \in {1, 2}, o \in Origins}

\* what lines 102-134 compute for arguments a
Locals(a) ==
    LET alt == GridOriginAlt(a)
        pp == _find_projparams(a.grid_origin, a.radars, a.grid_projection)
        offs == _find_offsets(a.radars, pp, alt)
    IN  [skip_transform |-> SkipTransform(a),
         grid_origin_alt |-> alt,
         gatefilters |-> _parse_gatefilters(a.gatefilters, a.radars).val[1],
         cy_weighting_function |->
            _detemine_cy_weighting_func(a.weighting_function).val[1][1],
         warnings |->
            IF _detemine_cy_weighting_func(a.weighting_function).val[1][2]
            THEN <<WarnBarnes>> ELSE <<>>,
         projparams |-> pp,
         fields |-> _determine_fields(a.fields, a.radars),
         grid_params |-> _find_grid_params(a.grid_shape, a.grid_limits),
         offsets |-> offs,
         roi_func |-> _parse_roi_func(
             a.roi_func, a.constant_roi, a.z_factor, a.xy_factor,
             a.min_radius, a.h_factor, a.nb, a.bsp, offs, None).val[1]]

\* the call at line 136, the grid arrays of lines 137-139 made
AtLine136 ==
    /\ pc = "map"
    /\ exc = None
    /\ LET L == Locals(args)
       IN  /\ skip_transform = L.skip_transform
           /\ grid_origin_alt = L.grid_origin_alt
           /\ gatefilters = L.gatefilters
           /\ cy_weighting_function = L.cy_weighting_function
           /\ warnings = L.warnings
           /\ projparams = L.projparams
           /\ fields = L.fields
           /\ grid_params = L.grid_params
           /\ offsets = L.offsets
           /\ roi_func = L.roi_func
    /\ grid_sum = ZeroGrid(args.grid_shape, Len(fields))
    /\ grid_wsum = ZeroGrid(args.grid_shape, Len(fields))
    /\ nradar = 0
    /\ grids = None
    /\ ncall = 1
    /\ NoProfile

InitGrid ==
    /\ args \in GridArgs
    /\ _parse_gatefilters(args.gatefilters, args.radars).exc = None
    /\ AtLine136

\* line 144: zip(radars, gatefilters) ends with the shorter of the two
ZipLen(radars, gfs) ==
    IF Len(gfs) < Len(radars) THEN Len(gfs) ELSE Len(radars)

\* lines 144-179: the next radar of zip(radars, gatefilters); line 152
\* raises KeyError when the radar does not hold one of the fields
MapRadar ==
    /\ pc = "map"
    /\ nradar < ZipLen(args.radars, gatefilters)
    /\ IF \E k \in DOMAIN fields :
            fields[k] \notin DOMAIN args.radars[nradar + 1].fields
       THEN /\ exc' = ErrKey
            /\ pc' = "raised"
            /\ UNCHANGED <<grid_sum, grid_wsum, nradar>>
       ELSE /\ LET acc == MapOneRadar(
                    <<grid_sum, grid_wsum>>, args.radars[nradar + 1],
                    gatefilters[nradar + 1], fields, skip_transform,
                    projparams, grid_origin_alt, args.toa, roi_func,
                    cy_weighting_function, args.grid_shape, grid_params)
               IN  /\ grid_sum' = acc[1]
                   /\ grid_wsum' = acc[2]
            /\ nradar' = nradar + 1
            /\ UNCHANGED <<pc, exc>>
    /\ UNCHANGED <<qvp_vars, args, ncall, warnings, skip_transform, grid_origin_alt,
                   gatefilters, cy_weighting_function, projparams, fields,
                   grid_params, offsets, roi_func, grids>>

\* lines 181-190
Finalize ==
    /\ pc = "map"
    /\ nradar = ZipLen(args.radars, gatefilters)
    /\ grids' = Returned(Grids(grid_sum, grid_wsum, fields, args.grid_shape),
                         args.map_roi, roi_func, args.grid_shape, grid_params)
    /\ pc' = "done"
    /\ UNCHANGED <<qvp_vars, args, ncall, warnings, exc, skip_transform, grid_origin_alt, gatefilters,
                   cy_weighting_function, projparams, fields, grid_params,
                   offsets, roi_func, grid_sum, grid_wsum, nradar>>

NextGrid ==
    \/ MapRadar
    \/ Finalize

SpecGrid == InitGrid /\ [][NextGrid]_vars

\* ------------------- SpecOptions: lines 136-190 on radars of different fields
\*
\* The call at line 136 again, now on radars that hold different fields, one
\* of them a field named ROI, with the field list given or left out and the
\* diagnostic asked for or not.

OptionRadars ==
    {Scan(site, <<0>>, F) :
        site \in Sites, F \in {{"A", "B"}, {"A"}, {"A", "ROI"}}}

OptionArgs ==
    {With(With([radars |-> r, gatefilters |-> [kind |-> "False"],
                weighting_function |-> "Nearest",
                roi_func |-> RoIName("constant"),
                fields |-> f, constant_roi |-> cr, map_roi |-> m], o),
          FixedArgs) :
        r \in SeqsOf(OptionRadars),
        f \in {<<>>, << <<"A", "B">> >>, << <<"A", "ROI">> >>},
        cr \in {1, 2}, m \in BOOLEAN, o \in Origins}

InitOptions ==
    /\ args \in OptionArgs
    /\ AtLine136

SpecOptions == InitOptions /\ [][NextGrid]_vars

\* --------------------- SpecDist: lines 136-190 with roi_func = 'dist'
\*
\* The call at line 136 with the radius of influence growing with the
\* horizontal distance from the radars.

DistArgs ==
    {With(With([radars |-> r, gatefilters |-> [kind |-> "False"],
                weighting_function |-> "Nearest",
                roi_func |-> RoIName("dist"),
                fields |-> << <<"A", "B">> >>, constant_roi |-> 1,
                xy_factor |-> xy, min_radius |-> mr], o),
          FixedArgs) :
        r \in SeqsOf(GridRadars), xy \in {0, 1, 2}, mr \in {1, 2},
        o \in Origins}

InitDist ==
    /\ args \in DistArgs
    /\ AtLine136

SpecDist == InitDist /\ [][NextGrid]_vars

\* --------------------- SpecRadius: lines 136-190 with any radius parameters
\*
\* The call at line 136 with the parameters of 'constant' and of 'dist'
\* taken from values that include zero and a negative number, which
\* _parse_roi_func hands to the RoI object as they are.

RadiusArgs ==
    {With(With([radars |-> r, gatefilters |-> [kind |-> "False"],
                weighting_function |-> "Nearest",
                roi_func |-> RoIName(n),
                fields |-> << <<"A", "B">> >>, constant_roi |-> cr,
                xy_factor |-> xy, min_radius |-> mr], o),
          FixedArgs) :
        r \in SeqsOf(GridRadars), n \in {"constant", "dist"},
        cr \in {0 - 1, 0, 1}, xy \in {0, 1}, mr \in {0, 1},
        o \in Origins}

InitRadius ==
    /\ args \in RadiusArgs
    /\ AtLine136

SpecRadius == InitRadius /\ [][NextGrid]_vars

\* --------------------- SpecFilters: lines 136-190 with every kind of filter
\*
\* The call at line 136 on radars whose default moment-based filter excludes
\* the gate or not, with gatefilters False, None, one GateFilter or a
\* sequence of them, whenever _parse_gatefilters returns.

FilterRadars ==
    {[MkRadar(site, maskA, FALSE) EXCEPT !.moment_excluded = m] :
        site \in Sites, maskA \in BOOLEAN, m \in BOOLEAN}

FilterChoices ==
    {[kind |-> "False"], [kind |-> "None"]}
    \cup {GateFilter(b) : b \in BOOLEAN}
    \cup {[kind |-> "seq", seq |-> s] :
            s \in SeqsOf({GateFilter(b) : b \in BOOLEAN})}

FilterArgs ==
    {With(With([radars |-> r, gatefilters |-> g,
                weighting_function |-> "Nearest",
                roi_func |-> RoIName("constant"),
                fields |-> << <<"A", "B">> >>, constant_roi |-> 2], o),
          FixedArgs) :
        r \in SeqsOf(FilterRadars), g \in FilterChoices, o \in Origins}

InitFilters ==
    /\ args \in FilterArgs
    /\ _parse_gatefilters(args.gatefilters, args.radars).exc = None
    /\ AtLine136

SpecFilters == InitFilters /\ [][NextGrid]_vars

\* ------------------------ SpecCalls: lines 136-190, one call after another
\*
\* When a call has returned, the caller makes a further call with arguments
\* of its choice.  The new call binds its locals afresh; the variable grids
\* keeps the dictionary of the call before until line 184 binds it again.

CallsArgs ==
    {With(With([radars |-> r, gatefilters |-> [kind |-> "False"],
                weighting_function |-> "Nearest",
                roi_func |-> RoIName("constant"),
                fields |-> << <<"A", "B">> >>, constant_roi |-> cr], o),
          FixedArgs) :
        r \in SeqsOf({MkRadar(site, FALSE, FALSE) : site \in Sites}),
        cr \in {1, 2}, o \in Origins}

InitCalls ==
    /\ args \in CallsArgs
    /\ AtLine136

\* a further call, brought to line 136
NewCall ==
    /\ pc = "done"
    /\ ncall < MaxCalls
    /\ ncall' = ncall + 1
    /\ args' \in CallsArgs
    /\ pc' = "map"
    /\ exc' = None
    /\ LET L == Locals(args')
       IN  /\ skip_transform' = L.skip_transform
           /\ grid_origin_alt' = L.grid_origin_alt
           /\ gatefilters' = L.gatefilters
           /\ cy_weighting_function' = L.cy_weighting_function
           /\ warnings' = L.warnings
           /\ projparams' = L.projparams
           /\ fields' = L.fields
           /\ grid_params' = L.grid_params
           /\ offsets' = L.offsets
           /\ roi_func' = L.roi_func
           /\ grid_sum' = ZeroGrid(args'.grid_shape, Len(L.fields))
           /\ grid_wsum' = ZeroGrid(args'.grid_shape, Len(L.fields))
    /\ nradar' = 0
    /\ UNCHANGED <<grids, qvp_vars>>

NextCalls ==
    \/ MapRadar
    \/ Finalize
    \/ NewCall

SpecCalls == InitCalls /\ [][NextCalls]_vars

\* ------------------------------- SpecParams: line 120 on a range of grids
\*
\* The call is at line 120 with a grid shape and grid limits drawn from the
\* axes below.  The range of an axis of n > 1 cells is a multiple of n - 1,
\* so that the float division of lines 287-295 is exact.

\* an axis: <<number of cells, <<start, stop>>>>
Axes ==
    {<<1, <<lo, lo + d>>>> : lo \in {0 - 2, 0}, d \in {0, 3}}
    \cup UNION {{<<n, <<lo, lo + k * (n - 1)>>>> :
                    lo \in {0 - 2, 0}, k \in {0, 1, 2}} : n \in 2..MaxAxis}

ParamArgs ==
    {With([grid_shape |-> <<z[1], y[1], x[1]>>,
           grid_limits |-> <<z[2], y[2], x[2]>>],
          With([radars |-> <<MkRadar(SiteAt(0), FALSE, FALSE)>>,
                gatefilters |-> [kind |-> "False"],
                weighting_function |-> "Nearest",
                roi_func |-> RoIName("constant"), fields |-> <<>>,
                constant_roi |-> 1,
                grid_origin |-> <<>>, grid_origin_alt |-> <<>>],
               FixedArgs)) :
        z \in Axes, y \in Axes, x \in Axes}

InitParams ==
    /\ args \in ParamArgs
    /\ pc = "grid_params"
    /\ exc = None
    /\ LET L == Locals(args)
       IN  /\ skip_transform = L.skip_transform
           /\ grid_origin_alt = L.grid_origin_alt
           /\ gatefilters = L.gatefilters
           /\ cy_weighting_function = L.cy_weighting_function
           /\ warnings = L.warnings
           /\ projparams = L.projparams
           /\ fields = L.fields
    /\ grid_params = None
    /\ offsets = None
    /\ roi_func = None
    /\ grid_sum = None
    /\ grid_wsum = None
    /\ nradar = 0
    /\ grids = None
    /\ ncall = 1
    /\ NoProfile

SpecParams == InitParams /\ [][FindGridParams]_vars

\* --------------------- SpecOrigin: the call from its first line, the origins
\*
\* The call from line 102 with the grid origin and its altitude given or
\* left out independently of each other, and with the projection left out
\* or given as a dictionary that asks for lon_0 and lat_0 to be filled in.
\* The given origin and altitude are those of no radar.

\* the grid_projection arguments: None, a projection that takes its centre
\* from the grid origin, and a projection that names its own centre
ProjectionFromOrigin ==
    ("proj" :> "aeqd") @@ ("_include_lon_0_lat_0" :> TRUE)
ProjectionCentred(lon) ==
    ("proj" :> "aeqd") @@ ("lon_0" :> lon) @@ ("lat_0" :> 0)

OriginArgs ==
    {With([radars |-> r, gatefilters |-> [kind |-> "False"],
           weighting_function |-> "Nearest", roi_func |-> RoIName(n),
           fields |-> <<>>, constant_roi |-> 1,
           grid_origin |-> o, grid_origin_alt |-> alt,
           grid_projection |-> p],
          FixedArgs) :
        r \in SeqsOf({MkRadar(site, FALSE, FALSE) : site \in Sites}),
        n \in {"constant", "max_space"},
        o \in {<<>>, << <<0, 4>> >>}, alt \in {<<>>, <<3>>},
        p \in {<<>>, <<ProjectionFromOrigin>>}}

InitOrigin ==
    /\ args \in OriginArgs
    /\ pc = "start"
    /\ exc = None
    /\ skip_transform = None
    /\ grid_origin_alt = None
    /\ gatefilters = None
    /\ cy_weighting_function = None
    /\ warnings = <<>>
    /\ projparams = None
    /\ fields = None
    /\ grid_params = None
    /\ offsets = None
    /\ roi_func = None
    /\ grid_sum = None
    /\ grid_wsum = None
    /\ nradar = 0
    /\ grids = None
    /\ ncall = 1
    /\ NoProfile

\* the steps of Spec that a call with gate filters and a weighting function
\* in order takes
NextOrigin ==
    \/ Start
    \/ ParseGatefilters
    \/ DetermineWeighting
    \/ FindProjparams
    \/ DetermineFields
    \/ FindGridParams
    \/ FindOffsets
    \/ MaxSpace
    \/ ParseRoiFunc

SpecOrigin == InitOrigin /\ [][NextOrigin]_vars

\* ---------------- SpecProj: lines 136-190 with a projection given or left out
\*
\* The call at line 136 with grid_projection left out, given so as to take
\* its centre from the grid origin, or given with a centre of its own, two
\* metres east of the origin of the longitudes; the origin and its altitude
\* are given or left out independently.

ProjArgs ==
    {With([radars |-> r, gatefilters |-> [kind |-> "False"],
           weighting_function |-> "Nearest",
           roi_func |-> RoIName("constant"),
           fields |-> << <<"A", "B">> >>, constant_roi |-> cr,
           grid_origin |-> o, grid_origin_alt |-> alt,
           grid_projection |-> p],
          FixedArgs) :
        r \in SeqsOf({MkRadar(site, FALSE, FALSE) : site \in Sites}),
        cr \in {1, 2},
        o \in {<<>>, << <<0, 0>> >>}, alt \in {<<>>, <<0>>},
        p \in {<<>>, <<ProjectionFromOrigin>>, <<ProjectionCentred(2)>>}}

InitProj ==
    /\ args \in ProjArgs
    /\ AtLine136

SpecProj == InitProj /\ [][NextGrid]_vars

\* ====================================================== pyart.retrieve.qvp
\*
\* A masked array is a sequence of cells [mask, data], data an exact
\* rational; a field of a radar volume is a sequence of rays, each a
\* sequence of cells, one for each gate.  Heights and times are integers.

ErrIndex == "IndexError"
ErrKeyField == "KeyError: field_name"
ErrUnboundProfile == "UnboundLocalError: rqvp, evp, svp or vp"

WarnStatistics == <<"Unsuported statistics">>
WarnScanType == <<"Error: unsupported scan type.">>
WarnNoData == <<"No data in selected point">>
WarnField(f) == <<"Field not in radar object", f>>

\* an unmasked cell that holds the integer v
V(v) == [mask |-> FALSE, data |-> <<v, 1>>]

\* np.ma.masked_all(n)
MaskedAll(n) == [k \in 1..n |-> Masked]

\* the data of the unmasked cells of a sequence of cells, in their order
Unmasked(cells) ==
    LET valid(c) == ~c.mask
        kept == SelectSeq(cells, valid)
    IN  [i \in 1..Len(kept) |-> kept[i].data]

RECURSIVE RSum(_)
RSum(xs) == IF xs = <<>> THEN Zero ELSE RAdd(xs[1], RSum(Tail(xs)))

RLess(p, q) == p[1] * q[2] < q[1] * p[2]

\* a sequence of rationals in ascending order
RECURSIVE SortRat(_)
SortRat(xs) ==
    IF xs = <<>> THEN <<>>
    ELSE LET i == CHOOSE k \in DOMAIN xs :
                    \A j \in DOMAIN xs : ~RLess(xs[j], xs[k])
         IN  <<xs[i]>> \o SortRat([j \in 1..(Len(xs) - 1) |->
                                    IF j < i THEN xs[j] ELSE xs[j + 1]])

\* np.ma.mean of a sequence of cells: masked when no cell is valid
MaMean(cells) ==
    LET v == Unmasked(cells)
    IN  IF v = <<>> THEN Masked
        ELSE [mask |-> FALSE, data |-> RDiv(RSum(v), <<Len(v), 1>>)]

\* np.ma.median of a sequence of cells
MaMedian(cells) ==
    LET s == SortRat(Unmasked(cells))
        n == Len(s)
    IN  IF n = 0 THEN Masked
        ELSE IF n % 2 = 1 THEN [mask |-> FALSE, data |-> s[(n + 1) \div 2]]
        ELSE [mask |-> FALSE,
              data |-> RDiv(RAdd(s[n \div 2], s[n \div 2 + 1]), <<2, 1>>)]

\* lines 788-821.  values runs along the chosen axis; the count of line 819
\* is taken along axis 0 whatever the axis, and line 820 indexes values with
\* a boolean array of the length of that count, which raises IndexError
\* when the lengths differ
compute_directional_stats(field, avg_type, nvalid_min, axis) ==
    LET nr == Len(field)
        ng == Len(field[1])
        column(k) == [i \in 1..nr |-> field[i][k]]
        along(k) == IF axis = 0 THEN column(k) ELSE field[k]
        n == IF axis = 0 THEN ng ELSE nr
        values == [k \in 1..n |->
                    IF avg_type = "mean" THEN MaMean(along(k))
                    ELSE MaMedian(along(k))]
        nvalid == [k \in 1..ng |-> Len(Unmasked(column(k)))]
    IN  IF Len(nvalid) # Len(values) THEN Raise(ErrIndex)
        ELSE Ok(<< [k \in 1..n |->
                      IF nvalid[k] < nvalid_min THEN Masked ELSE values[k]],
                   nvalid >>)

\* np.argmin: the first index of the smallest element
ArgMin(xs) ==
    CHOOSE i \in DOMAIN xs :
        \A j \in DOMAIN xs : xs[i] < xs[j] \/ (xs[i] = xs[j] /\ i <= j)

\* lines 877-901; twice_tol is twice rng_tol, which is half a resolution
find_rng_index(rng_vec, rng, twice_tol) ==
    LET dist == [i \in DOMAIN rng_vec |-> Abs(rng_vec[i] - rng)]
        ind_rng == ArgMin(dist)
    IN  IF 2 * dist[ind_rng] > twice_tol THEN <<>> ELSE <<ind_rng>>

\* lines 824-874, for interp_kind 'none' and 'nearest'.  'none' reads
\* grid_height[1], the second height, and raises IndexError on a grid of
\* fewer than two heights.  'nearest' is scipy's interp1d: the value at the
\* nearest data height for a height within the data heights, the fill
\* value, masked by line 864, outside of them; the heights of the model
\* have no ties.
project_to_vertical(data_in, data_height, grid_height, interp_kind) ==
    IF Len(data_in) = 0 THEN Ok(MaskedAll(Len(grid_height)))
    ELSE CASE interp_kind = "none" ->
                IF Len(grid_height) < 2 THEN Raise(ErrIndex)
                ELSE LET hres == grid_height[2] - grid_height[1]
                     IN  Ok([k \in DOMAIN grid_height |->
                            LET ind_h == find_rng_index(
                                    data_height, grid_height[k], hres)
                            IN  IF ind_h = <<>> THEN Masked
                                ELSE data_in[ind_h[1]]])
           [] interp_kind = "nearest" ->
                Ok([k \in DOMAIN grid_height |->
                    LET h == grid_height[k]
                        dist == [i \in DOMAIN data_height |->
                                    Abs(data_height[i] - h)]
                    IN  IF \/ h < MinOf(Range(data_height))
                           \/ h > MaxOf(data_height)
                        THEN Masked
                        ELSE data_in[ArgMin(dist)]])

\* len(np.arange(hmax/hres)), line 1063
NGates(hmax, hres) == IF hmax <= 0 THEN 0 ELSE (hmax + hres - 1) \div hres

\* lines 1029-1095: the profile object, of which the model keeps the fields
\* the functions of qvp.py write.  Line 1058 reads radar.fields[field_name]
\* and raises KeyError for a name the radar does not hold.  The data of a
\* field is the sequence of its rows, empty at first.  hres is even in the
\* model, so that the bin centres of line 1062 are integers.
_create_qvp_object(radar, field_names, qvp_type, start_time, hmax, hres) ==
    IF \E i \in DOMAIN field_names :
            field_names[i] \notin DOMAIN radar.fields
    THEN Raise(ErrKeyField)
    ELSE Ok([scan_type |-> qvp_type,
             fields |-> [f \in Range(field_names) |-> <<>>],
             range |-> [k \in 1..NGates(hmax, hres) |->
                            (k - 1) * hres + hres \div 2],
             ngates |-> NGates(hmax, hres),
             time_units |-> IF start_time = <<>> THEN radar.time_units
                            ELSE start_time[1],
             time |-> <<>>,
             nsweeps |-> 1,
             fixed_angle |-> IF qvp_type \in {"rqvp", "evp", "vp"} THEN 90
                             ELSE radar.fixed_angle,
             sweep_end_ray_index |-> 0 - 1,
             rays_per_sweep |-> 0,
             azimuth |-> <<>>,
             elevation |-> <<>>,
             nrays |-> 0])

\* lines 1098-1132, the object changed in place; the gate_longitude,
\* gate_latitude and gate_altitude arrays of lines 1126-1132 are left out
_update_qvp_metadata(q, ref_time, elev) ==
    [q EXCEPT !.time = Append(@, ref_time - q.time_units),
              !.sweep_end_ray_index = @ + 1,
              !.rays_per_sweep = @ + 1,
              !.nrays = @ + 1,
              !.azimuth = [i \in 1..(q.nrays + 1) |-> 0],
              !.elevation = [i \in 1..(q.nrays + 1) |-> elev]]

\* np.size of the data of a field: rows times columns
DataSize(q, f) == Len(q.fields[f]) * q.ngates

\* lines 238-243 (and 383-389, 527-532, 636-642, 667-672, 775-780): the row
\* becomes the data when the data is of size 0 and is appended otherwise
StoreRow(q, f, row) ==
    [q EXCEPT !.fields[f] = IF DataSize(q, f) = 0 THEN <<row>>
                            ELSE Append(@, row)]

\* what a call of a function of qvp.py does: the exception it raised or
\* None, the value it returned (<<>> for None), the warnings it issued, and
\* the object it was given as the call left it (<<>> when given None)
Outcome(e, v, w, h) == [exc |-> e, val |-> v, warnings |-> w, heap |-> h]

\* lines 221-243: the loop over field_names from its i-th name on, on the
\* object q with the warnings w issued so far
RECURSIVE QvpRows(_, _, _, _, _, _, _, _)
QvpRows(q, w, radar_aux, field_names, i, avg_type, nvalid_min, interp_kind) ==
    IF i > Len(field_names) THEN [exc |-> None, obj |-> q, warnings |-> w]
    ELSE LET f == field_names[i]
             missing == f \notin DOMAIN radar_aux.fields
             stats == compute_directional_stats(
                          radar_aux.fields[f], avg_type, nvalid_min, 0)
             proj == project_to_vertical(
                         stats.val[1][1], radar_aux.gate_altitude, q.range,
                         interp_kind)
             w1 == IF missing THEN Append(w, WarnField(f)) ELSE w
         IN  IF ~missing /\ proj.exc # None
             THEN [exc |-> proj.exc, obj |-> q, warnings |-> w1]
             ELSE IF f \notin DOMAIN q.fields
             THEN [exc |-> ErrKeyField, obj |-> q, warnings |-> w1]
             ELSE QvpRows(StoreRow(q, f, IF missing THEN MaskedAll(q.ngates)
                                         ELSE proj.val[1]),
                          w1, radar_aux, field_names, i + 1, avg_type,
                          nvalid_min, interp_kind)

\* lines 142-245.  The radars of the model are volumes of one sweep, so
\* that extract_sweeps([int(angle)]) of line 202 gives the radar itself; a
\* radar that is not a PPI volume is of a scan type the function does not
\* support (RHI volumes, which go through cross_section_rhi, are not
\* modelled).
compute_qvp(radar, field_names, ref_time, avg_type, nvalid_min, interp_kind, hmax, hres, qvp_arg) ==
    IF avg_type \notin {"mean", "median"}
    THEN Outcome(None, <<>>, <<WarnStatistics>>, qvp_arg)
    ELSE IF radar.scan_type # "ppi"
    THEN Outcome(None, <<>>, <<WarnScanType>>, qvp_arg)
    ELSE LET created == _create_qvp_object(
                            radar, field_names, "qvp", ref_time, hmax, hres)
         IN  IF qvp_arg = <<>> /\ created.exc # None
             THEN Outcome(created.exc, <<>>, <<>>, <<>>)
             ELSE LET q0 == IF qvp_arg = <<>> THEN created.val[1]
                            ELSE qvp_arg[1]
                      t == IF ref_time = <<>> THEN radar.time
                           ELSE ref_time[1]
                      q1 == _update_qvp_metadata(q0, t, q0.fixed_angle)
                      r == QvpRows(q1, <<>>, radar, field_names, 1,
                                   avg_type, nvalid_min, interp_kind)
                  IN  IF r.exc # None
                      THEN Outcome(r.exc, <<>>, r.warnings,
                                   IF qvp_arg = <<>> THEN <<>>
                                   ELSE <<r.obj>>)
                      ELSE Outcome(None, <<r.obj>>, r.warnings,
                                   IF qvp_arg = <<>> THEN <<>>
                                   ELSE <<r.obj>>)

\* the rows rows[f] stored for the names of field_names from the i-th on
RECURSIVE StoreRows(_, _, _, _)
StoreRows(q, field_names, i, rows) ==
    IF i > Len(field_names) THEN q
    ELSE StoreRows(StoreRow(q, field_names[i], rows[field_names[i]]),
                   field_names, i + 1, rows)

\* compute_rqvp, compute_evp, compute_svp and compute_vp have one shape:
\* the profile is bound to a local (rqvp, evp, svp, vp) only when qvp is
\* None (lines 316-319, 473-476, 612-615, 733-736), and the next statement
\* reads that local (lines 324-326, 481, 620-621, 741), so with a qvp given
\* the call raises UnboundLocalError and leaves the object alone.  With
\* qvp None the object is created, its metadata updated and one row stored
\* for each field.  The numbers of the rows (lines 328-391, 483-532,
\* 623-672, 743-780) are not computed by the model: rows is any row for
\* each field.
OtherProfile(qvp_type, radar, field_names, ref_time, averaged, hmax, hres, qvp_arg, rows) ==
    IF ~averaged
    THEN Outcome(None, <<>>, <<WarnStatistics>>, qvp_arg)
    ELSE IF radar.scan_type # "ppi"
    THEN Outcome(None, <<>>, <<WarnScanType>>, qvp_arg)
    ELSE IF qvp_arg # <<>>
    THEN Outcome(ErrUnboundProfile, <<>>, <<>>, qvp_arg)
    ELSE LET created == _create_qvp_object(
                            radar, field_names, qvp_type, ref_time, hmax,
                            hres)
         IN  IF created.exc # None
             THEN Outcome(created.exc, <<>>, <<>>, <<>>)
             ELSE LET q0 == created.val[1]
                      t == IF ref_time = <<>> THEN radar.time
                           ELSE ref_time[1]
                      q1 == _update_qvp_metadata(q0, t, q0.fixed_angle)
                  IN  Outcome(None,
                              <<StoreRows(q1, field_names, 1, rows)>>,
                              <<>>, <<>>)

\* lines 248-392
compute_rqvp(radar, field_names, ref_time, avg_type, hmax, hres, qvp_arg, rows) ==
    OtherProfile("rqvp", radar, field_names, ref_time,
                 avg_type \in {"mean", "median"}, hmax, hres, qvp_arg, rows)

\* lines 395-534
compute_evp(radar, field_names, ref_time, avg_type, hmax, hres, qvp_arg, rows) ==
    OtherProfile("evp", radar, field_names, ref_time,
                 avg_type \in {"mean", "median"}, hmax, hres, qvp_arg, rows)

\* lines 537-674; found tells whether find_nearest_gate finds a gate at the
\* point: when it does not, lines 627-640 warn and store a masked row for
\* every field
compute_svp(radar, field_names, ref_time, avg_type, hmax, hres, qvp_arg, found, rows) ==
    LET masked == [f \in Range(field_names) |->
                        MaskedAll(NGates(hmax, hres))]
        o == OtherProfile("svp", radar, field_names, ref_time,
                          avg_type \in {"mean", "median"}, hmax, hres,
                          qvp_arg, IF found THEN rows ELSE masked)
    IN  IF o.val # <<>> /\ ~found
        THEN [o EXCEPT !.warnings = <<WarnNoData>>]
        ELSE o

\* lines 677-782; compute_vp has no avg_type
compute_vp(radar, field_names, ref_time, hmax, hres, qvp_arg, rows) ==
    OtherProfile("vp", radar, field_names, ref_time, TRUE, hmax, hres,
                 qvp_arg, rows)

\* ------------------------------------------------- the inputs of qvp.py

\* the field of a radar volume of two rays and two gates
QField(f) ==
    IF f = "A" THEN << <<V(0), V(2)>>, <<V(2), Masked>> >>
    ELSE << <<V(1), Masked>>, <<V(3), Masked>> >>

\* a radar volume of one sweep: its scan type, the fields it holds and the
\* altitudes of the gates of its first ray
QRadar(scan_type, F, gate_altitude) ==
    [scan_type |-> scan_type, time |-> 7, time_units |-> 0,
     fixed_angle |-> 0, gate_altitude |-> gate_altitude,
     fields |-> [f \in F |-> QField(f)]]

QRadars ==
    {QRadar("ppi", {"A", "B"}, <<1, 3>>),
     QRadar("ppi", {"A"}, <<1, 7>>),
     QRadar("sector", {"A", "B"}, <<1, 3>>)}

\* hres is 2, so that hmax = 4, 2 and 0 give a profile of two height bins,
\* of one and of none
QHres == 2

\* a call of compute_qvp, the qvp argument apart: the mean of a PPI volume
\* that holds both fields, on two height bins
QvpCall ==
    [func |-> "compute_qvp", radar |-> QRadar("ppi", {"A", "B"}, <<1, 3>>),
     field_names |-> <<"A", "B">>, ref_time |-> <<>>, avg_type |-> "mean",
     nvalid_min |-> 1, interp_kind |-> "none", hmax |-> 4, hres |-> QHres]

\* the calls of compute_qvp: QvpCall with another radar and other field
\* names, with another statistic, another ref_time, or another vertical grid
QvpCalls ==
    {With([radar |-> r, field_names |-> fn], QvpCall) :
        r \in QRadars, fn \in {<<"A">>, <<"A", "B">>}}
    \cup {With(s, QvpCall) :
            s \in {[avg_type |-> "median", nvalid_min |-> 2],
                   [avg_type |-> "mode", nvalid_min |-> 1]}}
    \cup {With([ref_time |-> <<5>>], QvpCall)}
    \cup {With(v, QvpCall) :
            v \in {[interp_kind |-> "nearest", hmax |-> 4],
                   [interp_kind |-> "none", hmax |-> 2],
                   [interp_kind |-> "nearest", hmax |-> 0]}}

\* the calls of the other four functions: on the PPI volume that holds both
\* fields and on the one that lacks B, with a statistic that is not
\* supported, and on a volume that is not a PPI
OtherCalls ==
    {[func |-> fc, radar |-> c.radar, field_names |-> <<"A", "B">>,
      ref_time |-> <<>>, avg_type |-> c.avg_type, hmax |-> 4,
      hres |-> QHres] :
        fc \in {"compute_rqvp", "compute_evp", "compute_svp", "compute_vp"},
        c \in {[radar |-> r, avg_type |-> "mean"] : r \in QRadars}
              \cup {[radar |-> QvpCall.radar, avg_type |-> "mode"]}}

\* the rows a call of the other four functions may compute: every field the
\* same row, of masked cells or of ones
QRows(field_names, n) ==
    {[f \in Range(field_names) |-> [k \in 1..n |-> c]] : c \in {Masked, V(1)}}

\* no call of map_gates_to_grid is under way
NoMapping ==
    /\ args = None
    /\ pc = "idle"
    /\ exc = None
    /\ skip_transform = None
    /\ grid_origin_alt = None
    /\ gatefilters = None
    /\ cy_weighting_function = None
    /\ warnings = <<>>
    /\ projparams = None
    /\ fields = None
    /\ grid_params = None
    /\ offsets = None
    /\ roi_func = None
    /\ grid_sum = None
    /\ grid_wsum = None
    /\ nradar = 0
    /\ grids = None
    /\ ncall = 0

\* ------------------------------ SpecQvp: a caller of the profile functions
\*
\* The caller calls one of the five functions with a radar volume and with
\* qvp=None or the object it holds, and from then on holds the object the
\* call returned; when the call returned none it holds the object it held.
\* series lists the calls that were made on the object or changed it:
\* function, field names, and whether the call returned the object.

InitQvp ==
    /\ NoMapping
    /\ NoProfile

\* the caller takes the outcome o of the call c, made with the object it
\* holds (given) or with None
Take(c, given, o) ==
    LET entry(ok) == [func |-> c.func, field_names |-> c.field_names,
                      ok |-> ok]
    IN  /\ call' = [c EXCEPT !.func = c.func] @@ [given |-> given]
        /\ returned' = [exc |-> o.exc, val |-> o.val]
        /\ qwarnings' = o.warnings
        /\ qvp' = IF o.val # <<>> THEN o.val
                  ELSE IF given THEN o.heap ELSE qvp
        /\ series' = IF o.val # <<>>
                     THEN IF given THEN Append(series, entry(TRUE))
                          ELSE <<entry(TRUE)>>
                     ELSE IF given /\ o.heap # qvp
                     THEN Append(series, entry(FALSE))
                     ELSE series
        /\ UNCHANGED map_vars

\* the object may be passed on: the caller holds one, and fewer than
\* MaxSteps calls were made on it
MayPass == qvp # <<>> /\ Len(series) < MaxSteps

ComputeQvp ==
    \E c \in QvpCalls, given \in BOOLEAN :
        /\ given => MayPass
        /\ Take(c, given,
                compute_qvp(c.radar, c.field_names, c.ref_time, c.avg_type,
                            c.nvalid_min, c.interp_kind, c.hmax, c.hres,
                            IF given THEN qvp ELSE <<>>))

ComputeRqvp ==
    \E c \in OtherCalls, given \in BOOLEAN :
        \E rows \in QRows(c.field_names, NGates(c.hmax, c.hres)) :
            /\ c.func = "compute_rqvp"
            /\ given => MayPass
            /\ Take(c, given,
                    compute_rqvp(c.radar, c.field_names, c.ref_time,
                                 c.avg_type, c.hmax, c.hres,
                                 IF given THEN qvp ELSE <<>>, rows))

ComputeEvp ==
    \E c \in OtherCalls, given \in BOOLEAN :
        \E rows \in QRows(c.field_names, NGates(c.hmax, c.hres)) :
            /\ c.func = "compute_evp"
            /\ given => MayPass
            /\ Take(c, given,
                    compute_evp(c.radar, c.field_names, c.ref_time,
                                c.avg_type, c.hmax, c.hres,
                                IF given THEN qvp ELSE <<>>, rows))

ComputeSvp ==
    \E c \in OtherCalls, given \in BOOLEAN, found \in BOOLEAN :
        \E rows \in QRows(c.field_names, NGates(c.hmax, c.hres)) :
            /\ c.func = "compute_svp"
            /\ given => MayPass
            /\ Take(c, given,
                    compute_svp(c.radar, c.field_names, c.ref_time,
                                c.avg_type, c.hmax, c.hres,
                                IF given THEN qvp ELSE <<>>, found, rows))

ComputeVp ==
    \E c \in OtherCalls, given \in BOOLEAN :
        \E rows \in QRows(c.field_names, NGates(c.hmax, c.hres)) :
            /\ c.func = "compute_vp"
            /\ given => MayPass
            /\ Take(c, given,
                    compute_vp(c.radar, c.field_names, c.ref_time, c.hmax,
                               c.hres, IF given THEN qvp ELSE <<>>, rows))

NextQvp ==
    \/ ComputeQvp
    \/ ComputeRqvp
    \/ ComputeEvp
    \/ ComputeSvp
    \/ ComputeVp

SpecQvp == InitQvp /\ [][NextQvp]_vars

\* --------------------- SpecStats: compute_directional_stats on small fields
\*
\* The function is called once, on a field of two to MaxRays rays and two
\* gates with any cell masked, for either statistic and either axis.

StatsFields ==
    UNION {[1..nr -> [1..2 -> {Masked, V(0), V(2)}]] : nr \in 2..MaxRays}

StatsCalls ==
    {[func |-> "compute_directional_stats", field |-> fd, avg_type |-> a,
      nvalid_min |-> n, axis |-> x] :
        fd \in StatsFields, a \in {"mean", "median"}, n \in {1, 2},
        x \in {0, 1}}

InitStats ==
    /\ NoMapping
    /\ qvp = <<>>
    /\ call \in StatsCalls
    /\ returned = [exc |-> None, val |-> <<>>]
    /\ qwarnings = <<>>
    /\ series = <<>>

\* the call has returned or raised
Applied == returned.exc # None \/ returned.val # <<>>

DirectionalStats ==
    /\ call.func = "compute_directional_stats"
    /\ ~Applied
    /\ LET r == compute_directional_stats(call.field, call.avg_type,
                                          call.nvalid_min, call.axis)
       IN  returned' = [exc |-> r.exc, val |-> r.val]
    /\ UNCHANGED <<map_vars, qvp, call, qwarnings, series>>

SpecStats == InitStats /\ [][DirectionalStats]_vars

\* ------------------------------------------- the whole gridding as a function

RECURSIVE Accumulate(_, _, _)
Accumulate(a, L, n) ==
    IF n = 0
    THEN <<ZeroGrid(a.grid_shape, Len(L.fields)),
           ZeroGrid(a.grid_shape, Len(L.fields))>>
    ELSE MapOneRadar(Accumulate(a, L, n - 1), a.radars[n], L.gatefilters[n],
                     L.fields, L.skip_transform, L.projparams,
                     L.grid_origin_alt, a.toa, L.roi_func,
                     L.cy_weighting_function, a.grid_shape, L.grid_params)

\* the dictionary lines 136-190 return for arguments a
GridOutput(a) ==
    LET L == Locals(a)
        acc == Accumulate(a, L, Len(a.radars))
    IN  Returned(Grids(acc[1], acc[2], L.fields, a.grid_shape),
                 a.map_roi, L.roi_func, a.grid_shape, L.grid_params)

\* ---------------------------------------- the samples, read off the arguments

Samples(a) == 1..Len(a.radars)

\* the grid origin of a call: <<altitude, longitude>>
OriginOf(a) ==
    << IF a.grid_origin_alt = <<>> THEN a.radars[1].altitude
       ELSE a.grid_origin_alt[1],
       IF a.grid_origin = <<>> THEN a.radars[1].longitude
       ELSE a.grid_origin[1][2] >>

\* location <<z, y, x>> of the gate of radar i relative to the grid origin
SampleLoc(a, i) ==
    <<a.radars[i].gate_altitude - OriginOf(a)[1], 0,
      a.radars[i].gate_longitude - OriginOf(a)[2]>>

\* the exclusion bit the gate filter of radar i sets on its gate
ExclusionBit(a, i) ==
    /\ a.gatefilters.kind = "seq"
    /\ a.gatefilters.seq[i].gate_excluded

AboveCeiling(a, i) == SampleLoc(a, i)[1] > a.toa

Valid(a, i, f) == ~a.radars[i].fields[f].mask

Value(a, i, f) == a.radars[i].fields[f].data

\* index of field f in the list of mapped fields
FieldIndex(f) == CHOOSE j \in DOMAIN fields : fields[j] = f

\* centre of cell c, from the limits of the grid
CellCentre(a, c) ==
    <<a.grid_limits[1][1], a.grid_limits[2][1],
      a.grid_limits[3][1]
        + IF a.grid_shape[3] = 1 THEN 0
          ELSE (c[3] * (a.grid_limits[3][2] - a.grid_limits[3][1]))
                   \div (a.grid_shape[3] - 1) >>

\* cell c lies within the constant radius of sample i
InRange(a, i, c) ==
    Dist2(CellCentre(a, c), SampleLoc(a, i)) <= a.constant_roi * a.constant_roi

\* the weight of sample i at cell c
WeightAt(a, i, c) ==
    Weight(cy_weighting_function, Dist2(CellCentre(a, c), SampleLoc(a, i)),
           a.constant_roi * a.constant_roi)

\* sample i adds to field f of cell c
Reaches(a, i, c, f) ==
    /\ ~ExclusionBit(a, i)
    /\ ~AboveCeiling(a, i)
    /\ Valid(a, i, f)
    /\ InRange(a, i, c)

\* the radar the loop of line 144 maps next
Mapping(i) == pc = "map" /\ nradar < Len(args.radars) /\ i = nradar + 1

AllCells == Cells(args.grid_shape)

\* ------------------------------------------------------------------ claims

RECURSIVE Pick(_, _)
Pick(keep, n) ==
    IF n = 0 THEN <<>>
    ELSE IF n \in keep THEN Append(Pick(keep, n - 1), n)
    ELSE Pick(keep, n - 1)

WithoutExcluded(a) ==
    LET idx == Pick({i \in Samples(a) : ~ExclusionBit(a, i)}, Len(a.radars))
    IN  [a EXCEPT
            !.radars = [k \in 1..Len(idx) |-> a.radars[idx[k]]],
            !.gatefilters = [kind |-> "False"],
            !.grid_origin = << <<0, OriginOf(a)[2]>> >>,
            !.grid_origin_alt = <<OriginOf(a)[1]>>]

Contributing(a, i) ==
    /\ ~ExclusionBit(a, i)
    /\ ~AboveCeiling(a, i)
    /\ \E f \in FieldNames : Valid(a, i, f)

\* the largest radius the influence-radius function of the call can return
MaxRadius(a) == a.constant_roi

Far(a, c) ==
    \A i \in Samples(a) :
        Contributing(a, i) =>
            Dist2(CellCentre(a, c), SampleLoc(a, i))
                > MaxRadius(a) * MaxRadius(a)

TwoEqual(a, i, j, c, f) ==
    /\ i # j
    /\ Reaches(a, i, c, f) /\ Reaches(a, j, c, f)
    /\ WeightAt(a, i, c) = WeightAt(a, j, c)
    /\ WeightAt(a, i, c) # Zero
    /\ \A k \in Samples(a) \ {i, j} : ~Reaches(a, k, c, f)

Reordered(a, p) ==
    [a EXCEPT
        !.radars = [k \in 1..Len(a.radars) |-> a.radars[p[k]]],
        !.gatefilters =
            IF a.gatefilters.kind = "seq"
            THEN [kind |-> "seq",
                  seq |-> [k \in 1..Len(a.radars) |-> a.gatefilters.seq[p[k]]]]
            ELSE a.gatefilters]

Orders(a) ==
    {p \in [1..Len(a.radars) -> 1..Len(a.radars)] :
        \A k, l \in 1..Len(a.radars) : p[k] = p[l] => k = l}

Ended == pc \in {"done", "raised"}

\* the names _detemine_cy_weighting_func accepts, in the spellings of
\* WeightingNames
KnownWeightings == {"Barnes", "barnes", "barnes2", "NEAREST", "Cressman"}

KnownRoINames == {"constant", "dist", "dist_beam", "max_space"}

\* as many gate filters as radars
GatefiltersMatch(a) ==
    \/ a.gatefilters.kind \in {"False", "None"}
    \/ a.gatefilters.kind = "GateFilter" /\ Len(a.radars) = 1
    \/ a.gatefilters.kind = "seq" /\ Len(a.gatefilters.seq) = Len(a.radars)

\* one radar whose gate is valid for every field, not excluded, below the
\* ceiling and on the centre of cell c, and a constant radius that covers
\* only that cell
SingleSample(a, c) ==
    /\ Len(a.radars) = 1
    /\ DOMAIN a.radars[1].fields = FieldNames
    /\ GatefiltersMatch(a)
    /\ ~ExclusionBit(a, 1)
    /\ a.weighting_function \in KnownWeightings \cup {"Nearest"}
    /\ \A f \in FieldNames : Valid(a, 1, f)
    /\ a.roi_func = RoIName("constant")
    /\ \A d \in Cells(a.grid_shape) :
        Dist2(CellCentre(a, d), SampleLoc(a, 1))
            <= a.constant_roi * a.constant_roi  <=>  d = c
    /\ SampleLoc(a, 1) = CellCentre(a, c)

\* the grids the single sample is to give: its value at c, masked elsewhere
IdentityGrids(a, c) ==
    [f \in FieldNames |-> [d \in Cells(a.grid_shape) |->
        IF d = c THEN [mask |-> FALSE, data |-> <<Value(a, 1, f), 1>>]
        ELSE Masked]]

\* C2: a call with a single valid sample on the centre of a cell and a
\* constant radius covering only that cell completes, and returns for each
\* field the sample's value at that cell and a masked value elsewhere.
C2_SingleSampleIdentity ==
    \A c \in AllCells :
        (Ended /\ SingleSample(args, c)) =>
            (pc = "done" /\ grids = IdentityGrids(args, c))

\* C2, for lines 136-190 alone: started at line 136, the single-sample call
\* returns the sample's value at its cell and a masked value elsewhere.
C2_IdentityFromLine136 ==
    \A c \in AllCells :
        (pc = "done" /\ SingleSample(args, c)) =>
            grids = IdentityGrids(args, c)

\* C9: a weighting_function that is none of Barnes, Barnes2, Cressman and
\* Nearest ends the call at line 117: the call gets no further, no kernel
\* tag is chosen and nothing is returned; the exception is the ValueError
\* 'unknown weighting_function' (the ValueError of line 246 when the gate
\* filters, parsed one line earlier, do not match the radars).
C9_UnknownWeighting ==
    args.weighting_function \notin KnownWeightings =>
        /\ pc \in {"start", "parse_gatefilters", "weighting", "raised"}
        /\ pc = "raised" =>
            exc = IF GatefiltersMatch(args) THEN ErrWeighting
                  ELSE ErrGatefilters

\* C9 witness: the call has ended with 'unknown weighting_function'
C9_Witness ==
    /\ pc = "raised"
    /\ args.weighting_function = "Gauss"
    /\ exc = ErrWeighting

\* C11: when the number of gate filters differs from the number of radars
\* (a single GateFilter with two or more radars included), the call ends at
\* line 116 with the ValueError 'Length of gatefilters must match length of
\* radars', and no radar has been mapped.
C11_GatefilterCount ==
    ~GatefiltersMatch(args) =>
        /\ pc \in {"start", "parse_gatefilters", "raised"}
        /\ pc = "raised" => exc = ErrGatefilters
        /\ nradar = 0

\* C11 witness: a single GateFilter passed with two radars has ended the
\* call with the ValueError of line 246
C11_Witness ==
    /\ pc = "raised"
    /\ exc = ErrGatefilters
    /\ args.gatefilters.kind = "GateFilter"
    /\ Len(args.radars) >= 2

\* the errors of configuration map_gates_to_grid raises (lines 207, 246, 315)
ConfigurationErrors == {ErrWeighting, ErrGatefilters, ErrRoiFunc}

\* a call whose gate filters and weighting function are in order and whose
\* roi_func is 'max_space'
MaxSpaceCall(a) ==
    /\ GatefiltersMatch(a)
    /\ a.weighting_function \in KnownWeightings
    /\ a.roi_func = RoIName("max_space")

\* C12: a 'max_space' call with a radar of fewer than two rays ends with an
\* error of configuration.
C12_TooFewRays ==
    (/\ Ended
     /\ MaxSpaceCall(args)
     /\ \E i \in Samples(args) : args.radars[i].nrays < 2) =>
        exc \in ConfigurationErrors

\* C13: a 'max_space' call with any number of radars, each of two rays or
\* more, completes, and its RoI is built from the largest spacing of adjacent
\* rays at the last gate over all the radars.
C13_MaxSpaceRadius ==
    (/\ Ended
     /\ MaxSpaceCall(args)
     /\ \A i \in Samples(args) : args.radars[i].nrays >= 2) =>
        /\ pc = "done"
        /\ roi_func.cls = "MaxSpaceRoI"
        /\ roi_func.max_az_spacing = MaxAzSpacing(args.radars)

\* a field list is given and one of the radars lacks one of its fields
Absent(a) ==
    /\ a.fields # <<>>
    /\ \E i \in Samples(a) : \E f \in Range(a.fields[1]) :
        f \notin DOMAIN a.radars[i].fields

\* the call a for field f alone, on the radars that hold f, with the origin
\* of a and without the diagnostic
Having(a, f) ==
    LET idx == Pick({i \in Samples(a) : f \in DOMAIN a.radars[i].fields},
                    Len(a.radars))
    IN  [a EXCEPT
            !.radars = [k \in 1..Len(idx) |-> a.radars[idx[k]]],
            !.fields = << <<f>> >>,
            !.map_roi = FALSE,
            !.grid_origin = << <<0, OriginOf(a)[2]>> >>,
            !.grid_origin_alt = <<OriginOf(a)[1]>>]

\* C14: when a field list is given and a radar lacks one of the fields, the
\* call does not fail: it issues a warning and returns, for every field of
\* the list, the grid mapped from the radars that hold the field.
C14_DataAbsence ==
    (Ended /\ Absent(args)) =>
        /\ pc = "done"
        /\ exc = None
        /\ warnings # <<>>
        /\ \A f \in Range(fields) : grids[f] = GridOutput(Having(args, f))[f]

\* line 119 has been executed
PastFields ==
    \/ pc \in {"grid_params", "offsets", "max_space", "parse_roi_func"}
    \/ pc = "raised" /\ exc \in {ErrAppend, ErrUnbound}

\* the names every radar of the call holds a field for
InEveryRadar(a) ==
    {f \in UNION {DOMAIN a.radars[i].fields : i \in Samples(a)} :
        \A i \in Samples(a) : f \in DOMAIN a.radars[i].fields}

\* C15: with fields=None the mapped fields are, without repetition, exactly
\* the names every radar holds a field for, so every mapped field exists in
\* every radar; a given list of fields is used unchanged.
C15_FieldsIntersection ==
    PastFields =>
        IF args.fields = <<>>
        THEN /\ Range(fields) = InEveryRadar(args)
             /\ Len(fields) = Cardinality(InEveryRadar(args))
             /\ \A f \in Range(fields) : \A i \in Samples(args) :
                    f \in DOMAIN args.radars[i].fields
        ELSE fields = args.fields[1]

\* C15 witness: two radars that hold different fields were passed with
\* fields=None, and the one field they share is mapped
C15_Witness ==
    /\ PastFields
    /\ args.fields = <<>>
    /\ Len(args.radars) = 2
    /\ DOMAIN args.radars[1].fields = {"A", "B"}
    /\ DOMAIN args.radars[2].fields = {"A"}
    /\ fields = <<"A">>

\* C16: _find_grid_params gives, for each axis, the lower limit as the
\* start; for one cell the step 0; for n > 1 cells the step (stop - start) /
\* (n - 1), so that cell 0 lies at the lower and cell n - 1 at the upper
\* limit.
C16_GridParams ==
    pc = "offsets" =>
        \A k \in 1..3 :
            LET n == args.grid_shape[k]
                lo == args.grid_limits[k][1]
                hi == args.grid_limits[k][2]
                start == grid_params[1][k]
                step == grid_params[2][k]
            IN  /\ start = lo
                /\ n = 1 => step = 0
                /\ n > 1 =>
                    /\ step * (n - 1) = hi - lo
                    /\ start + 0 * step = lo
                    /\ start + (n - 1) * step = hi

\* C16 witness: line 120 has run on a grid of one cell in z, whose limits
\* differ, and MaxAxis cells two metres apart in x
C16_Witness ==
    /\ pc = "offsets"
    /\ args.grid_shape[1] = 1
    /\ args.grid_limits[1][1] # args.grid_limits[1][2]
    /\ grid_params[2][1] = 0
    /\ args.grid_shape[3] = MaxAxis
    /\ args.grid_limits[3][1] = 0 - 2
    /\ grid_params[2][3] = 2
    /\ grid_params[1][3] = 0 - 2

\* line 117 has been executed
PastWeighting ==
    \/ pc \in {"projparams", "fields", "grid_params", "offsets", "max_space",
               "parse_roi_func"}
    \/ pc = "raised" /\ exc \in {ErrAppend, ErrUnbound}

\* C17: Barnes, in either case of its letters (and so the default of line
\* 38), is not an error: line 117 is passed with tag 0 and the one warning
\* that Barnes is deprecated; Cressman, Nearest and Barnes2 give the tags 1,
\* 2 and 3 and no warning.
C17_BarnesDeprecated ==
    LET w == args.weighting_function
    IN  /\ w \in KnownWeightings => exc # ErrWeighting
        /\ PastWeighting =>
            /\ w \in {"Barnes", "barnes"} =>
                (cy_weighting_function = 0 /\ warnings = <<WarnBarnes>>)
            /\ w = "Cressman" =>
                (cy_weighting_function = 1 /\ warnings = <<>>)
            /\ w = "NEAREST" =>
                (cy_weighting_function = 2 /\ warnings = <<>>)
            /\ w = "barnes2" =>
                (cy_weighting_function = 3 /\ warnings = <<>>)

\* C17 witness: the default, Barnes, has passed line 117 with tag 0 and the
\* warning
C17_Witness ==
    /\ PastWeighting
    /\ args.weighting_function = "Barnes"
    /\ cy_weighting_function = 0
    /\ warnings = <<WarnBarnes>>

\* the offset <<z, y, x>> of radar i from the grid origin
OffsetOf(a, i) ==
    <<a.radars[i].altitude - OriginOf(a)[1], 0,
      a.radars[i].longitude - OriginOf(a)[2]>>

\* the 'dist' radius at cell c relative to radar i
OwnerRadius(a, i, c) ==
    a.z_factor * (CellCentre(a, c)[1] - OffsetOf(a, i)[1])
    + a.xy_factor * Abs(CellCentre(a, c)[3] - OffsetOf(a, i)[3])
    + a.min_radius

\* the 'dist' radius at cell c relative to the nearest radar
CellRadius(a, c) == MinOf({OwnerRadius(a, i, c) : i \in Samples(a)})

\* sample i is not excluded, lies below the ceiling and is valid for a field
Live(a, i) ==
    /\ ~ExclusionBit(a, i)
    /\ ~AboveCeiling(a, i)
    /\ \E f \in FieldNames : Valid(a, i, f)

\* the offsets are one for each radar, in the order of the radars, they are
\* the offsets the RoI holds, and the loop of line 144 leaves them alone
OffsetsPerRadar ==
    /\ [](/\ offsets = [i \in Samples(args) |-> OffsetOf(args, i)]
          /\ roi_func.offsets = offsets)
    /\ [][offsets' = offsets /\ roi_func' = roi_func]_vars

OwnGrid(f) ==
    [c \in AllCells |->
        GridValue(grid_sum[c][FieldIndex(f)], grid_wsum[c][FieldIndex(f)])]

\* the diagnostic of a call with a constant radius: the radius at every cell
Diagnostic(a) == [c \in Cells(a.grid_shape) |-> Plain(a.constant_roi)]

C19_NoFieldNamedROI ==
    (pc = "done" /\ "ROI" \notin Range(fields)) =>
        /\ DOMAIN grids =
            Range(fields) \cup (IF args.map_roi THEN {"ROI"} ELSE {})
        /\ args.map_roi => grids["ROI"] = Diagnostic(args)
        /\ \A f \in Range(fields) : grids[f] = OwnGrid(f)

\* C10: in a call whose other arguments are in order, an unknown roi_func
\* name ends the call with the ValueError 'unknown roi_func', each of the
\* four known names gives its own RoI variant, and an RoIFunction object is
\* used as it is.
C10_RoiFuncNames ==
    (/\ Ended
     /\ GatefiltersMatch(args)
     /\ args.weighting_function \in KnownWeightings) =>
        IF args.roi_func.kind = "str" /\ args.roi_func.name \notin KnownRoINames
        THEN exc = ErrRoiFunc
        ELSE exc = None

\* line 118 has been executed
PastProjparams ==
    \/ pc \in {"fields", "grid_params", "offsets", "max_space",
               "parse_roi_func"}
    \/ pc = "raised" /\ exc \in {ErrAppend, ErrUnbound}

\* C21: once lines 110-114 have run, the origin altitude is the altitude
\* given, and that of the first radar when none is given; once line 118 has
\* run, the centre lat_0, lon_0 of the projection is the grid origin given,
\* and the latitude and longitude of the first radar when none is given.
\* What is given is used whatever the first radar's position.
C21_OriginOfFirst ==
    /\ pc # "start" =>
        grid_origin_alt = IF args.grid_origin_alt = <<>>
                          THEN args.radars[1].altitude
                          ELSE args.grid_origin_alt[1]
    /\ PastProjparams =>
        /\ projparams["lat_0"] = IF args.grid_origin = <<>>
                                 THEN args.radars[1].latitude
                                 ELSE args.grid_origin[1][1]
        /\ projparams["lon_0"] = IF args.grid_origin = <<>>
                                 THEN args.radars[1].longitude
                                 ELSE args.grid_origin[1][2]

\* C21 witness: a call that gives the origin and leaves the altitude out
\* has passed line 118; the centre is the origin given, which is not where
\* the first radar stands, and the altitude is that of the first radar
C21_Witness ==
    /\ PastProjparams
    /\ args.grid_origin # <<>>
    /\ args.grid_origin_alt = <<>>
    /\ args.radars[1].longitude = 2
    /\ projparams["lon_0"] = 4
    /\ grid_origin_alt = 1

\* the dictionary lines 136-190 return for arguments a when the x and y of
\* every gate come from geographic_to_cartesian with the projection of the
\* call
ProjectedOutput(a) ==
    LET L == [Locals(a) EXCEPT !.skip_transform = FALSE]
        acc == Accumulate(a, L, Len(a.radars))
    IN  Returned(Grids(acc[1], acc[2], L.fields, a.grid_shape),
                 a.map_roi, L.roi_func, a.grid_shape, L.grid_params)

Supported(c) ==
    /\ c.func = "compute_vp" \/ c.avg_type \in {"mean", "median"}
    /\ c.radar.scan_type = "ppi"

\* the object the call was given holds a field for every requested name
HoldsRequested(c, q) == \A f \in Range(c.field_names) : f \in DOMAIN q.fields

\* the last row of field f of object q
LastRow(q, f) == q.fields[f][Len(q.fields[f])]

\* C23: a call of compute_rqvp, compute_evp, compute_svp or compute_vp that
\* is given a profile object holding the requested fields returns that
\* object, with one more time entry and one more row for every requested
\* field.
C23_StoresTimeStep ==
    [][(/\ call'.func \in {"compute_rqvp", "compute_evp", "compute_svp",
                           "compute_vp"}
        /\ call'.given
        /\ Supported(call')
        /\ HoldsRequested(call', qvp[1]))
        => /\ returned'.exc = None
           /\ returned'.val = qvp'
           /\ Len(qvp'[1].time) = Len(qvp[1].time) + 1
           /\ \A f \in Range(call'.field_names) :
                Len(qvp'[1].fields[f]) = Len(qvp[1].fields[f]) + 1
      ]_vars

\* the row compute_qvp computes for field f of the radar of call c on the
\* height bins of object q: lines 227-235
QvpRow(c, f, q) ==
    project_to_vertical(
        compute_directional_stats(c.radar.fields[f], c.avg_type,
                                  c.nvalid_min, 0).val[1][1],
        c.radar.gate_altitude, q.range, c.interp_kind).val[1]

\* the height bins of the object the call c works on are ones that c's
\* interp_kind projects to: 'none' takes two bins at least
Projects(c, n) == c.interp_kind = "nearest" \/ n >= 2

\* C25: a call of compute_qvp that requests a field the radar does not hold
\* does not fail, on the first call (qvp=None) as on a later one: it warns
\* 'Field ... not in radar object' and stores a masked row of ngates cells
\* for that field, and stores for every other requested field the row
\* computed from the radar.
C25_MissingField ==
    [][(/\ call'.func = "compute_qvp"
        /\ Supported(call')
        /\ \E f \in Range(call'.field_names) :
                f \notin DOMAIN call'.radar.fields
        /\ IF call'.given
           THEN /\ HoldsRequested(call', qvp[1])
                /\ Projects(call', qvp[1].ngates)
           ELSE Projects(call', NGates(call'.hmax, call'.hres)))
        => /\ returned'.exc = None
           /\ returned'.val = qvp'
           /\ \A f \in Range(call'.field_names) :
                IF f \in DOMAIN call'.radar.fields
                THEN LastRow(qvp'[1], f) = QvpRow(call', f, qvp'[1])
                ELSE /\ WarnField(f) \in Range(qwarnings')
                     /\ LastRow(qvp'[1], f) = MaskedAll(qvp'[1].ngates)
      ]_vars

\* the calls made on the object the caller holds are k calls of compute_qvp
\* that returned it, the first of them made with qvp=None
QvpSeries(k) ==
    /\ k >= 1
    /\ Len(series) = k
    /\ \A j \in 1..k : series[j].func = "compute_qvp" /\ series[j].ok

\* the names requested in every call of the series
RequestedThroughout ==
    {f \in Range(series[1].field_names) :
        \A j \in DOMAIN series : f \in Range(series[j].field_names)}

\* the object q is a profile of k time steps for the fields F
ProfileOfSteps(q, k, F) ==
    /\ q.nrays = k
    /\ Len(q.time) = k
    /\ q.rays_per_sweep = k
    /\ q.sweep_end_ray_index = k - 1
    /\ Len(q.azimuth) = k
    /\ Len(q.elevation) = k
    /\ \A f \in F :
        /\ Len(q.fields[f]) = k
        /\ \A j \in 1..Len(q.fields[f]) : Len(q.fields[f][j]) = q.ngates

\* a call on the object, returning it, leaves the rows it held in place
\* and puts its row after them
RowsInCallOrder ==
    (call'.func = "compute_qvp" /\ call'.given /\ returned'.val # <<>>) =>
        \A f \in Range(call'.field_names) :
            /\ Len(qvp'[1].fields[f]) = Len(qvp[1].fields[f]) + 1
            /\ \A j \in 1..Len(qvp[1].fields[f]) :
                    qvp'[1].fields[f][j] = qvp[1].fields[f][j]

\* C30: after k >= 1 calls of compute_qvp that returned the profile, the
\* first made with qvp=None and each later one with the object returned
\* before, the profile has nrays = k, k time entries, rays_per_sweep = k,
\* sweep_end_ray_index = k - 1, k azimuths and elevations, and for every
\* field requested throughout k rows of ngates cells, in the order of the
\* calls.
C30_SeriesShape ==
    /\ [](\A k \in 1..MaxSteps :
            QvpSeries(k) => ProfileOfSteps(qvp[1], k, RequestedThroughout))
    /\ [][RowsInCallOrder]_vars

\* C30 for a profile with a height bin at least
C30_WithHeightBins ==
    /\ [](\A k \in 1..MaxSteps :
            (QvpSeries(k) /\ qvp[1].ngates >= 1) =>
                ProfileOfSteps(qvp[1], k, RequestedThroughout))
    /\ [][(call'.given /\ qvp[1].ngates >= 1) => RowsInCallOrder]_vars

\* the number of unmasked cells of the field of call c along its axis, for
\* the k-th position across it
ValidAlong(c, k) ==
    IF c.axis = 0
    THEN Cardinality({i \in DOMAIN c.field : ~c.field[i][k].mask})
    ELSE Cardinality({j \in DOMAIN c.field[k] : ~c.field[k][j].mask})

\* the number of positions across the axis of call c
Across(c) == IF c.axis = 0 THEN Len(c.field[1]) ELSE Len(c.field)

\* the call returned values and nvalid of one length, nvalid the number of
\* unmasked cells along the axis, values masked where that number is below
\* nvalid_min and only there
CountsAlongAxis ==
    /\ returned.exc = None
    /\ LET values == returned.val[1][1]
           nvalid == returned.val[1][2]
       IN  /\ Len(values) = Len(nvalid)
           /\ Len(values) = Across(call)
           /\ \A k \in 1..Across(call) :
                /\ nvalid[k] = ValidAlong(call, k)
                /\ values[k].mask <=> ValidAlong(call, k) < call.nvalid_min

\* C24: for axis 0 as for axis 1, compute_directional_stats returns values
\* and nvalid of the same length, nvalid the number of unmasked points along
\* the axis for each output position, and values masked at exactly the
\* positions where that number is below nvalid_min.
C24_CountsAlongAxis ==
    (call.func = "compute_directional_stats" /\ Applied) => CountsAlongAxis

\* C24 for axis 0 alone
C24_CountsAlongRays ==
    (call.func = "compute_directional_stats" /\ Applied /\ call.axis = 0)
        => CountsAlongAxis

\* the candidate cells of the sample of radar i, from the locals of the call
CandidatesOf(i) ==
    Candidates(SampleLoc(args, i), roi_func, args.grid_shape, grid_params)

SampleDist2(i, c) == Dist2(CellCentre(args, c), SampleLoc(args, i))

\* the square of the constant radius of the call
Radius2 == args.constant_roi * args.constant_roi

\* sample i, mapped by the step, adds weight w to field f of cell c
AddsWeight(c, f, w) ==
    grid_wsum'[c][FieldIndex(f)] = RAdd(grid_wsum[c][FieldIndex(f)], w)

\* the step leaves the sums of field f at cell c as they are
LeavesCell(c, f) ==
    /\ grid_wsum'[c][FieldIndex(f)] = grid_wsum[c][FieldIndex(f)]
    /\ grid_sum'[c][FieldIndex(f)] = grid_sum[c][FieldIndex(f)]

FilterExcludes(a, i) ==
    CASE a.gatefilters.kind = "False" -> FALSE
      [] a.gatefilters.kind = "None" -> a.radars[i].moment_excluded
      [] a.gatefilters.kind = "GateFilter" -> a.gatefilters.gate_excluded
      [] a.gatefilters.kind = "seq" -> a.gatefilters.seq[i].gate_excluded

\* the entry the parsed filters hold for radar i is the one the argument
\* gives for it
PairedWith(a, i) ==
    CASE a.gatefilters.kind = "False" -> gatefilters[i] = [kind |-> "False"]
      [] a.gatefilters.kind = "None" -> gatefilters[i] = [kind |-> "None"]
      [] a.gatefilters.kind = "GateFilter" -> gatefilters[i] = a.gatefilters
      [] a.gatefilters.kind = "seq" -> gatefilters[i] = a.gatefilters.seq[i]

====
